---- MODULE Spec2Model ----
(***************************************************************************)
(* Goods4Goods: the trade-request lifecycle and the conversation           *)
(* coordination of the client, over the tables of the hosted data store.   *)
(*                                                                         *)
(* The store is the tables (items, trade_requests, conversations,          *)
(* messages, hidden_conversations).  Every client handler is an async      *)
(* function: it is a task whose pc names the store request it awaits, and  *)
(* one step of a task is the store executing that request together with    *)
(* the synchronous code that runs up to the next await.  Every store       *)
(* request can fail (a transient error), chosen with \E ok.                *)
(***************************************************************************)
EXTENDS Integers, FiniteSets, Sequences, TLC

\* ------------------------------------------------------------------ bounds
MaxRequests == 1     \* trade_requests rows the store starts with
MaxSends == 2        \* trade requests the open client may send
MaxTasks == 1        \* handler invocations of one account in flight at once
MaxFriendships == 3  \* friendships rows the store may come to hold
MaxRefreshes == 2    \* loadConversations calls of one mount of MessagesList

Users == {1, 2}      \* the accounts
ItemIds == {1, 2}    \* the listings
\* the slots for n handler invocations of each account
SlotsOf(n) == Users \X (1..n)
Decisions == {"accepted", "declined"}

VARIABLES
  items,                \* table items: id -> row
  trade_requests,       \* table trade_requests: set of rows
  conversations,        \* table conversations: set of rows
  messages,             \* table messages: set of rows
  hidden_conversations, \* table hidden_conversations: set of <<conversation, user>>
  tasks,                \* handler invocations in flight: <<user, k>> -> task
  screen,               \* user -> the component the account has open
  tradeRequests,        \* MessagesList state: user -> incoming pending rows
  incomingRequests,     \* TradeRequests state: user -> incoming rows
  screenRequests,       \* TradeRequestsScreen state tradeRequests: user -> rows
  currentUser,          \* TradeRequestsScreen state: user -> user id or 0 (null)
  alert,                \* the Alert the last step has shown: <<user, title>>
  returnedIds,          \* <<caller, otherUserId, id>> of every id that
                        \* createOrGetConversation has returned
  userItems,            \* SwipeCards state: user -> own available listings
  swipeItems,           \* SwipeCards state items: user -> the cards
  currentIndex,         \* SwipeCards state: user -> index of the top card
  swipedItemIds,        \* SwipeCards state: user -> ids swiped
  animations,           \* SwipeCards: user -> card animations running
  myItems,              \* MyItems state items: user -> own listings
  homeItems,            \* HomeScreen state items: user -> listings shown
  detail,               \* ItemDetailScreen: user -> route params and state
  convList,             \* MessagesList state conversations: user -> the list
  selected,             \* App state selectedConversation: user -> id or 0
  newMessage,           \* ChatScreen state: user -> the text in the Input
  marking,              \* ChatScreen: user -> conversation of the awaited
                        \* markMessagesAsRead, or 0
  marked,               \* <<user, conversation>> of the markRead the store
                        \* has executed in the last step
  friendships,          \* table friendships: set of rows
  searchResults,        \* FriendSearch state: user -> accounts found
  friendRequests,       \* MessagesList state: user -> ids of the incoming
                        \* pending friendships
  chatMessages,         \* ChatScreen state messages: user -> the ids listed
  notifications,        \* user -> ids of the inserted messages the realtime
                        \* channel of ChatScreen has still to deliver
  loading,              \* ChatScreen: user -> position of loadMessages
  refreshes,            \* MessagesList: user -> the loadConversations calls
                        \* of this mount, in the order they started
  subscriptions         \* the realtime channels open: <<user, component>>

vars == <<items, trade_requests, conversations, messages, hidden_conversations,
          tasks, screen, tradeRequests, incomingRequests, screenRequests, currentUser,
          alert, returnedIds, userItems, swipeItems, currentIndex,
          swipedItemIds, animations, myItems, homeItems, detail, convList,
          selected, newMessage, marking, marked, friendships, searchResults,
          friendRequests, chatMessages, notifications, loading, refreshes,
          subscriptions>>

store == <<items, trade_requests, conversations, messages, hidden_conversations>>
views == <<screen, tradeRequests, incomingRequests, screenRequests, currentUser>>
swipe == <<userItems, swipeItems, currentIndex, swipedItemIds, animations,
           myItems, homeItems, detail>>
chat == <<convList, selected, newMessage, marking, marked>>
social == <<friendships, searchResults, friendRequests>>
live == <<chatMessages, notifications, loading, refreshes, subscriptions>>

\* the slots of the handler invocations
Slots == DOMAIN tasks

\* ------------------------------------------------------------------ rows
\* items.user_id of the seeded listings: item i belongs to account i
OwnerOf(i) == i

TradeRequestRow(id, requester, requesterItem, targetUser, targetItem, status) ==
  [id |-> id, requester_id |-> requester, requester_item_id |-> requesterItem,
   target_user_id |-> targetUser, target_item_id |-> targetItem,
   status |-> status]

\* the rows sendTradeRequest can have inserted: the requester's own listing
\* offered for a listing of another account, status pending
PendingRowsFor(id) ==
  {TradeRequestRow(id, OwnerOf(i), i, OwnerOf(j), j, "pending") :
     <<i, j>> \in {p \in ItemIds \X ItemIds : OwnerOf(p[1]) # OwnerOf(p[2])}}

NoAlert == <<0, "none">>

\* a text: its leading and trailing blanks and the characters between them
Text(pad, core) == [pad |-> pad, core |-> core]
NoText == Text(0, 0)
NoMark == <<0, 0>>

Idle == [kind |-> "idle", user |-> 0, pc |-> "idle", req |-> 0,
         decision |-> "none", other |-> 0, conv |-> 0, reqItem |-> 0,
         tgtItem |-> 0, isAvailable |-> FALSE, ids |-> {},
         failed |-> FALSE, text |-> NoText, query |-> <<>>,
         rendered |-> FALSE]

FreeSlots(u) == {s \in Slots : s[1] = u /\ tasks[s].kind = "idle"}
FreeSlot(u) == CHOOSE s \in FreeSlots(u) : \A t \in FreeSlots(u) : s[2] <= t[2]

Max(S) == IF S = {} THEN 0 ELSE CHOOSE x \in S : \A y \in S : y <= x
NextMessageId == Max({m.id : m \in messages}) + 1
\* now(): later than every timestamp in the store
Now == Max({c.last_message_at : c \in conversations}) + 1

\* a row of messages; is_read is not in the insert and takes its default
MessageRow(id, conversationId, senderId, content) ==
  [id |-> id, conversation_id |-> conversationId, sender_id |-> senderId,
   content |-> content, is_read |-> FALSE]

\* a row of conversations
ConversationRow(id, user1Id, user2Id, lastMessageAt) ==
  [id |-> id, user1_id |-> user1Id, user2_id |-> user2Id,
   last_message_at |-> lastMessageAt]

\* ------------------------------------------------------------------ store
\* .update({status}).eq("id", requestId): every matching row, whatever its
\* current status and whoever asks
UpdateStatus(rows, requestId, status) ==
  {IF r.id = requestId THEN [r EXCEPT !.status = status] ELSE r : r \in rows}

\* createOrGetConversation: the pair is stored smaller id first
User1Id(me, otherUserId) == IF me < otherUserId THEN me ELSE otherUserId
User2Id(me, otherUserId) == IF me < otherUserId THEN otherUserId ELSE me

\* .eq("user1_id", ..).eq("user2_id", ..)
ConversationsOf(user1Id, user2Id) ==
  {c \in conversations : c.user1_id = user1Id /\ c.user2_id = user2Id}

\* the channels that are open when the components shown have just mounted:
\* MessagesList, ChatScreen and TradeRequestsScreen open channels
Subscribed(shown) ==
  {<<u, shown[u]>> : u \in {x \in Users :
     shown[x] \in {"MessagesList", "ChatScreen", "TradeRequestsScreen"}}}

\* the realtime channel of ChatScreen, filtered by conversation: the insert
\* of message m is announced to every ChatScreen open on its conversation
Notify(m) ==
  [u \in Users |->
     IF <<u, "ChatScreen">> \in subscriptions /\ selected[u] = m.conversation_id
     THEN Append(notifications[u], m.id)
     ELSE notifications[u]]

\* ------------------------------------------------------------------ init
\* no list is loaded
Unloaded ==
  /\ items = [i \in ItemIds |-> [id |-> i, user_id |-> OwnerOf(i),
                                is_available |-> TRUE, status |-> "available"]]
  /\ tradeRequests = [u \in Users |-> {}]
  /\ incomingRequests = [u \in Users |-> {}]
  /\ screenRequests = [u \in Users |-> {}]
  /\ currentUser = [u \in Users |-> 0]
  /\ alert = NoAlert
  /\ returnedIds = {}
  /\ userItems = [u \in Users |-> <<>>]
  /\ swipeItems = [u \in Users |-> <<>>]
  /\ currentIndex = [u \in Users |-> 0]
  /\ swipedItemIds = [u \in Users |-> {}]
  /\ animations = [u \in Users |-> {}]
  /\ myItems = [u \in Users |-> {}]
  /\ homeItems = [u \in Users |-> {}]
  /\ detail = [u \in Users |-> [item |-> 0, userItems |-> {}, currentUser |-> 0]]
  /\ convList = [u \in Users |-> <<>>]
  /\ selected = [u \in Users |-> 0]
  /\ newMessage = [u \in Users |-> NoText]
  /\ marking = [u \in Users |-> 0]
  /\ marked = NoMark
  /\ searchResults = [u \in Users |-> {}]
  /\ friendRequests = [u \in Users |-> {}]
  /\ chatMessages = [u \in Users |-> <<>>]
  /\ notifications = [u \in Users |-> <<>>]
  /\ loading = [u \in Users |-> "idle"]
  /\ refreshes = [u \in Users |-> <<>>]

\* no handler runs, no list is loaded
Fresh ==
  /\ Unloaded
  /\ tasks = [s \in SlotsOf(MaxTasks) |-> Idle]

\* one account has the client open, in one of the three components that
\* answer trade requests; the store holds 1..MaxRequests pending rows, and
\* the two accounts may have a conversation from earlier, which either may
\* have hidden
Init ==
  /\ Fresh
  /\ messages = {}
  /\ friendships = {}
  /\ \E c \in {"MessagesList", "TradeRequests", "TradeRequestsScreen"} : \E a \in Users :
        screen = [u \in Users |-> IF u = a THEN c ELSE "closed"]
  /\ \E earlier \in SUBSET {ConversationRow(1, 1, 2, 1)} :
        /\ conversations = earlier
        /\ hidden_conversations \in
              SUBSET {<<c.id, u>> : c \in earlier, u \in Users}
  /\ \E n \in 1..MaxRequests :
       \E f \in [1..n -> UNION {PendingRowsFor(k) : k \in 1..n}] :
          /\ \A k \in 1..n : f[k].id = k
          /\ trade_requests = {f[k] : k \in 1..n}
  /\ subscriptions = Subscribed(screen)

\* both accounts have asked for the other's listing and use MessagesList
MutualInit ==
  /\ Fresh
  /\ messages = {}
  /\ friendships = {}
  /\ screen = [u \in Users |-> "MessagesList"]
  /\ conversations = {}
  /\ hidden_conversations = {}
  /\ trade_requests = {TradeRequestRow(1, 1, 1, 2, 2, "pending"),
                       TradeRequestRow(2, 2, 2, 1, 1, "pending")}
  /\ subscriptions = Subscribed(screen)

\* ------------------------------------------------------------- handlers
\* a handler invocation of user u starts in the free slot
Start(kind, u, request, status) ==
  /\ FreeSlots(u) # {}
  /\ tasks' = [tasks EXCEPT ![FreeSlot(u)] =
        [Idle EXCEPT !.kind = kind, !.user = u, !.pc = "update",
                     !.req = request.id, !.decision = status,
                     !.other = request.requester_id,
                     !.reqItem = request.requester_item_id,
                     !.tgtItem = request.target_item_id]]

\* ------------------------------------------------- MessagesList (user u)
\* the rows loadTradeRequests selects: incoming and pending
IncomingPending(u) ==
  {r \in trade_requests : r.target_user_id = u /\ r.status = "pending"}

\* loadTradeRequests (on mount and on every trade_requests notification):
\* [] when the read fails
LoadTradeRequests(u) ==
  /\ screen[u] = "MessagesList"
  /\ \E ok \in BOOLEAN :
       tradeRequests' = [tradeRequests EXCEPT ![u] =
                           IF ok THEN IncomingPending(u) ELSE {}]
  /\ UNCHANGED <<store, tasks, screen, incomingRequests, screenRequests,
                 currentUser, returnedIds>>
  /\ alert' = NoAlert
  /\ UNCHANGED <<swipe, chat, social, live>>

\* every answer goes on to the conversation
AfterUpdateAlwaysLookup(status) == "lookup"
\* where respondToTradeRequest goes after its status update
AfterUpdate(status) == IF status = "accepted" THEN "lookup" ELSE "reload"

\* respondToTradeRequest up to its first await: the request is looked up in
\* the local list, then the status update is sent
RespondToTradeRequest(u, request, status) ==
  /\ screen[u] = "MessagesList"
  /\ request \in tradeRequests[u]
  /\ Start("respondToTradeRequest", u, request, status)
  /\ UNCHANGED <<store, views, returnedIds>>
  /\ alert' = NoAlert
  /\ UNCHANGED <<swipe, chat, social, live>>

\* the status update and the code up to the next await
RespondUpdate(s) ==
  LET t == tasks[s] IN
  /\ t.kind = "respondToTradeRequest" /\ t.pc = "update"
  /\ \E ok \in BOOLEAN :
       IF ok
       THEN /\ trade_requests' = UpdateStatus(trade_requests, t.req, t.decision)
            /\ tradeRequests' = [tradeRequests EXCEPT ![t.user] =
                                   {r \in @ : r.id # t.req}]
            /\ tasks' = [tasks EXCEPT ![s].pc = AfterUpdate(t.decision)]
       ELSE \* throw error: caught and logged, nothing shown
            /\ tasks' = [tasks EXCEPT ![s] = Idle]
            /\ UNCHANGED <<trade_requests, tradeRequests>>
  /\ UNCHANGED <<items, conversations, messages, hidden_conversations, screen,
                 incomingRequests, screenRequests, currentUser,
                 returnedIds>>
  /\ alert' = NoAlert
  /\ UNCHANGED <<swipe, chat, social, live>>

\* createOrGetConversation, the lookup: .single() yields the row when exactly
\* one matches, else error PGRST116 (found = 0)
ConversationLookup(s) ==
  LET t == tasks[s]
      rows == ConversationsOf(User1Id(t.user, t.other),
                              User2Id(t.user, t.other))
      found == IF Cardinality(rows) = 1 THEN (CHOOSE c \in rows : TRUE).id ELSE 0
  IN
  /\ t.kind = "respondToTradeRequest" /\ t.pc = "lookup"
  /\ \E ok \in BOOLEAN :
       IF ~ok
       THEN \* searchError other than PGRST116: returns null, accept goes on
            tasks' = [tasks EXCEPT ![s].pc = "reload"]
       ELSE IF found # 0
            THEN tasks' = [tasks EXCEPT ![s].pc = "unhide", ![s].conv = found]
            ELSE tasks' = [tasks EXCEPT ![s].pc = "insert"]
  /\ UNCHANGED <<store, views, returnedIds>>
  /\ alert' = NoAlert
  /\ UNCHANGED <<swipe, chat, social, live>>

\* rpc unhide_conversation_for_user: removes the caller's marker
UnhideConversationForUser(hidden, conversationId, userId) ==
  hidden \ {<<conversationId, userId>>}

\* createOrGetConversation, existing row: unhide (result ignored), return id
ConversationUnhide(s) ==
  LET t == tasks[s] IN
  /\ t.kind = "respondToTradeRequest" /\ t.pc = "unhide"
  /\ \E ok \in BOOLEAN :
       hidden_conversations' =
          IF ok THEN UnhideConversationForUser(hidden_conversations, t.conv, t.user)
          ELSE hidden_conversations
  /\ returnedIds' = returnedIds \cup {<<t.user, t.other, t.conv>>}
  /\ tasks' = [tasks EXCEPT ![s].pc = "message"]
  /\ UNCHANGED <<items, trade_requests, conversations, messages, views>>
  /\ alert' = NoAlert
  /\ UNCHANGED <<swipe, chat, social, live>>

\* createOrGetConversation, no row found: insert one, return its id
ConversationInsert(s) ==
  LET t == tasks[s]
      id == Max({c.id : c \in conversations}) + 1
  IN
  /\ t.kind = "respondToTradeRequest" /\ t.pc = "insert"
  /\ \E ok \in BOOLEAN :
       IF ok
       THEN /\ conversations' = conversations \cup
                 {ConversationRow(id, User1Id(t.user, t.other),
                                  User2Id(t.user, t.other), Now)}
            /\ returnedIds' = returnedIds \cup {<<t.user, t.other, id>>}
            /\ tasks' = [tasks EXCEPT ![s].pc = "message", ![s].conv = id]
       ELSE \* createError: returns null, accept goes on
            /\ tasks' = [tasks EXCEPT ![s].pc = "reload"]
            /\ UNCHANGED <<conversations, returnedIds>>
  /\ UNCHANGED <<items, trade_requests, messages, hidden_conversations, views>>
  /\ alert' = NoAlert
  /\ UNCHANGED <<swipe, chat, social, live>>

\* sendAutomaticMessage: one insert, its error caught and logged; the text
\* is 103 characters around the two titles, and the title typed for listing
\* 1 is short, any other long (AddItem takes any text that is not blank)
SendAutomaticMessage(s) ==
  LET t == tasks[s] IN
  /\ t.kind = "respondToTradeRequest" /\ t.pc = "message"
  /\ \E ok \in BOOLEAN :
       LET m == MessageRow(NextMessageId, t.conv, t.user,
                           103 + (IF t.reqItem = 1 THEN 6 ELSE 900)
                               + (IF t.tgtItem = 1 THEN 6 ELSE 900))
       IN  /\ messages' = IF ok THEN messages \cup {m} ELSE messages
           /\ notifications' = IF ok THEN Notify(m) ELSE notifications
  /\ tasks' = [tasks EXCEPT ![s].pc = "reload"]
  /\ UNCHANGED <<items, trade_requests, conversations, hidden_conversations,
                 views, returnedIds>>
  /\ alert' = NoAlert
  /\ UNCHANGED <<swipe, chat, social>>
  /\ UNCHANGED <<chatMessages, loading, refreshes, subscriptions>>

\* the trailing loadTradeRequests() of respondToTradeRequest
RespondReload(s) ==
  LET t == tasks[s] IN
  /\ t.kind = "respondToTradeRequest" /\ t.pc = "reload"
  /\ \E ok \in BOOLEAN :
       tradeRequests' = [tradeRequests EXCEPT ![t.user] =
          IF ok THEN IncomingPending(t.user) ELSE {}]
  /\ tasks' = [tasks EXCEPT ![s] = Idle]
  /\ UNCHANGED <<store, screen, incomingRequests, screenRequests, currentUser,
                 alert, returnedIds>>
  /\ UNCHANGED <<swipe, chat, social, live>>

\* ------------------------------------------------- TradeRequests (user u)
\* the rows loadTradeRequests selects as incoming, of which the list keeps
\* here the pending ones: a row of another status renders no button and
\* nothing else reads it
Incoming(u) ==
  {r \in trade_requests : r.target_user_id = u /\ r.status = "pending"}

\* loadTradeRequests (on mount): the list is kept when the read fails
LoadIncomingRequests(u) ==
  /\ screen[u] = "TradeRequests"
  /\ \E ok \in BOOLEAN :
       IF ok
       THEN /\ incomingRequests' = [incomingRequests EXCEPT ![u] = Incoming(u)]
            /\ alert' = NoAlert
       ELSE /\ alert' = <<u, "Error">>
            /\ UNCHANGED incomingRequests
  /\ UNCHANGED <<store, tasks, screen, tradeRequests, screenRequests,
                 currentUser, returnedIds>>
  /\ UNCHANGED <<swipe, chat, social, live>>

\* respondToRequest up to its await; renderTradeRequest shows Accept and
\* Decline on the pending requests
RespondToRequest(u, request, status) ==
  /\ screen[u] = "TradeRequests"
  /\ request \in incomingRequests[u] /\ request.status = "pending"
  /\ Start("respondToRequest", u, request, status)
  /\ UNCHANGED <<store, views, returnedIds>>
  /\ alert' = NoAlert
  /\ UNCHANGED <<swipe, chat, social, live>>

\* the status update of respondToRequest and its Alert
RequestUpdate(s) ==
  LET t == tasks[s] IN
  /\ t.kind = "respondToRequest" /\ t.pc = "update"
  /\ \E ok \in BOOLEAN :
       IF ok
       THEN /\ trade_requests' = UpdateStatus(trade_requests, t.req, t.decision)
            /\ alert' = <<t.user, "Success">>
            /\ tasks' = [tasks EXCEPT ![s].pc = "reload"]
       ELSE /\ alert' = <<t.user, "Error">>
            /\ tasks' = [tasks EXCEPT ![s] = Idle]
            /\ UNCHANGED trade_requests
  /\ UNCHANGED <<items, conversations, messages, hidden_conversations, screen,
                 tradeRequests, incomingRequests, screenRequests, currentUser,
                 returnedIds>>
  /\ UNCHANGED <<swipe, chat, social, live>>

\* the trailing loadTradeRequests() of respondToRequest
RequestReload(s) ==
  LET t == tasks[s] IN
  /\ t.kind = "respondToRequest" /\ t.pc = "reload"
  /\ \E ok \in BOOLEAN :
       IF ok
       THEN /\ incomingRequests' = [incomingRequests EXCEPT ![t.user] =
                  Incoming(t.user)]
            /\ alert' = NoAlert
       ELSE /\ alert' = <<t.user, "Error">>
            /\ UNCHANGED incomingRequests
  /\ tasks' = [tasks EXCEPT ![s] = Idle]
  /\ UNCHANGED <<store, screen, tradeRequests, screenRequests, currentUser,
                 returnedIds>>
  /\ UNCHANGED <<swipe, chat, social, live>>

\* ------------------------------------------- TradeRequestsScreen (user u)
\* getCurrentUser: the user of the session, null when the call fails
GetCurrentUser(u) ==
  /\ screen[u] = "TradeRequestsScreen"
  /\ \E ok \in BOOLEAN :
       currentUser' = [currentUser EXCEPT ![u] = IF ok THEN u ELSE 0]
  /\ UNCHANGED <<store, tasks, screen, tradeRequests, incomingRequests,
                 screenRequests, returnedIds>>
  /\ alert' = NoAlert
  /\ UNCHANGED <<swipe, chat, social, live>>

\* the rows fetchTradeRequests selects: sent or received by the user (the
\* pending ones; a row of another status renders no button)
SentOrReceived(u) ==
  {r \in trade_requests :
     (r.requester_id = u \/ r.target_user_id = u) /\ r.status = "pending"}

\* fetchTradeRequests (on mount, on refresh, on every notification)
FetchTradeRequests(u) ==
  /\ screen[u] = "TradeRequestsScreen"
  /\ \E ok \in BOOLEAN :
       IF ok
       THEN /\ screenRequests' = [screenRequests EXCEPT ![u] = SentOrReceived(u)]
            /\ alert' = NoAlert
       ELSE /\ alert' = <<u, "Error">>
            /\ UNCHANGED screenRequests
  /\ UNCHANGED <<store, tasks, screen, tradeRequests, incomingRequests,
                 currentUser, returnedIds>>
  /\ UNCHANGED <<swipe, chat, social, live>>

\* handleAcceptTrade, handleDeclineTrade: confirmed, up to the first await;
\* TradeRequestCard shows the buttons on a pending request unless
\* isRequester, which compares with currentUserId, undefined (0) until
\* getCurrentUser has set it
HandleTrade(u, request, status) ==
  /\ screen[u] = "TradeRequestsScreen"
  /\ request \in screenRequests[u]
  /\ request.status = "pending" /\ request.requester_id # currentUser[u]
  /\ Start(IF status = "accepted" THEN "handleAcceptTrade"
           ELSE "handleDeclineTrade", u, request, status)
  /\ UNCHANGED <<store, views, returnedIds>>
  /\ alert' = NoAlert
  /\ UNCHANGED <<swipe, chat, social, live>>

\* the status update of handleAcceptTrade and handleDeclineTrade
HandleTradeUpdate(s) ==
  LET t == tasks[s] IN
  /\ t.kind \in {"handleAcceptTrade", "handleDeclineTrade"} /\ t.pc = "update"
  /\ \E ok \in BOOLEAN :
       IF ok
       THEN /\ trade_requests' = UpdateStatus(trade_requests, t.req, t.decision)
            /\ IF t.kind = "handleAcceptTrade"
               THEN tasks' = [tasks EXCEPT ![s].pc = "items"] /\ alert' = NoAlert
               ELSE /\ tasks' = [tasks EXCEPT ![s].pc = "reload"]
                    /\ alert' = <<t.user, "Success">>
       ELSE /\ alert' = <<t.user, "Error">>
            /\ tasks' = [tasks EXCEPT ![s] = Idle]
            /\ UNCHANGED trade_requests
  /\ UNCHANGED <<items, conversations, messages, hidden_conversations, screen,
                 tradeRequests, incomingRequests, screenRequests, currentUser,
                 returnedIds>>
  /\ UNCHANGED <<swipe, chat, social, live>>

\* handleAcceptTrade: both items of the request are reserved,
\* .update({status: 'pending'}).in('id', ids) on items
HandleAcceptItems(s) ==
  LET t == tasks[s] IN
  /\ t.kind = "handleAcceptTrade" /\ t.pc = "items"
  /\ \E ok \in BOOLEAN :
       IF ok
       THEN /\ items' = [i \in DOMAIN items |->
                         IF i \in {t.reqItem, t.tgtItem}
                         THEN [items[i] EXCEPT !.status = "pending"]
                         ELSE items[i]]
            /\ alert' = <<t.user, "Success">>
            /\ tasks' = [tasks EXCEPT ![s].pc = "reload"]
       ELSE /\ alert' = <<t.user, "Error">>
            /\ tasks' = [tasks EXCEPT ![s] = Idle]
            /\ UNCHANGED items
  /\ UNCHANGED <<trade_requests, conversations, messages, hidden_conversations,
                 screen, tradeRequests, incomingRequests, screenRequests,
                 currentUser, returnedIds>>
  /\ UNCHANGED <<swipe, chat, social, live>>

\* the trailing fetchTradeRequests() of both handlers
HandleTradeReload(s) ==
  LET t == tasks[s] IN
  /\ t.kind \in {"handleAcceptTrade", "handleDeclineTrade"} /\ t.pc = "reload"
  /\ \E ok \in BOOLEAN :
       IF ok
       THEN /\ screenRequests' = [screenRequests EXCEPT ![t.user] =
                  IF screen[t.user] = "TradeRequestsScreen"
                  THEN SentOrReceived(t.user) ELSE @]
            /\ alert' = NoAlert
       ELSE /\ alert' = <<t.user, "Error">>
            /\ UNCHANGED screenRequests
  /\ tasks' = [tasks EXCEPT ![s] = Idle]
  /\ UNCHANGED <<store, screen, tradeRequests, incomingRequests, currentUser,
                 returnedIds>>
  /\ UNCHANGED <<swipe, chat, social, live>>

\* ------------------------------------------------------ MyItems (user u)
respond == <<conversations, messages, hidden_conversations, screen,
             tradeRequests, incomingRequests, screenRequests, currentUser,
             returnedIds>>

\* the listings in ascending order of id, as a list
RECURSIVE SeqOf(_)
SeqOf(S) == IF S = {} THEN <<>>
            ELSE LET m == CHOOSE x \in S : \A y \in S : x <= y
                 IN <<m>> \o SeqOf(S \ {m})

\* loadMyItems: every listing of the user, with its availability
OwnListings(u) ==
  {[id |-> i, is_available |-> items[i].is_available] :
     i \in {j \in DOMAIN items : items[j].user_id = u}}

LoadMyItems(u) ==
  /\ screen[u] = "SwipeCards"
  /\ \E ok \in BOOLEAN :
       IF ok
       THEN /\ myItems' = [myItems EXCEPT ![u] = OwnListings(u)]
            /\ alert' = NoAlert
       ELSE /\ alert' = <<u, "Error">>
            /\ UNCHANGED myItems
  /\ UNCHANGED <<store, tasks, respond, chat, userItems, swipeItems, currentIndex,
                 swipedItemIds, animations, homeItems, detail, social, live>>

\* toggleItemAvailability, confirmed: up to its await
ToggleItemAvailability(u, listing) ==
  /\ screen[u] = "SwipeCards"
  /\ listing \in myItems[u]
  /\ FreeSlots(u) # {}
  /\ tasks' = [tasks EXCEPT ![FreeSlot(u)] =
        [Idle EXCEPT !.kind = "toggleItemAvailability", !.user = u,
                     !.pc = "update", !.reqItem = listing.id,
                     !.isAvailable = ~listing.is_available]]
  /\ alert' = NoAlert
  /\ UNCHANGED <<store, respond, chat, swipe, social, live>>

\* the update of toggleItemAvailability and its Alert
ToggleUpdate(s) ==
  LET t == tasks[s] IN
  /\ t.kind = "toggleItemAvailability" /\ t.pc = "update"
  /\ \E ok \in BOOLEAN :
       IF ok
       THEN /\ items' = [i \in DOMAIN items |->
                         IF i = t.reqItem
                         THEN [items[i] EXCEPT !.is_available = t.isAvailable]
                         ELSE items[i]]
            /\ alert' = <<t.user, "Success">>
            /\ tasks' = [tasks EXCEPT ![s].pc = "reload"]
       ELSE /\ alert' = <<t.user, "Error">>
            /\ tasks' = [tasks EXCEPT ![s] = Idle]
            /\ UNCHANGED items
  /\ UNCHANGED <<trade_requests, conversations, messages,
                 hidden_conversations, views, returnedIds, swipe, chat,
                 social, live>>

\* deleteItem, confirmed: up to the delete
DeleteItem(u, listing) ==
  /\ screen[u] = "SwipeCards"
  /\ listing \in myItems[u]
  /\ FreeSlots(u) # {}
  /\ tasks' = [tasks EXCEPT ![FreeSlot(u)] =
        [Idle EXCEPT !.kind = "deleteItem", !.user = u, !.pc = "delete",
                     !.reqItem = listing.id]]
  /\ alert' = NoAlert
  /\ UNCHANGED <<store, respond, chat, swipe, social, live>>

\* .delete().eq("id", itemId) on items; ON DELETE CASCADE removes the
\* trade_requests rows that reference the item
DeleteCascade(rows, itemId) ==
  {r \in rows : r.requester_item_id # itemId /\ r.target_item_id # itemId}

ItemDelete(s) ==
  LET t == tasks[s] IN
  /\ t.kind = "deleteItem" /\ t.pc = "delete"
  /\ \E ok \in BOOLEAN :
       IF ok
       THEN /\ items' = [i \in DOMAIN items \ {t.reqItem} |-> items[i]]
            /\ trade_requests' = DeleteCascade(trade_requests, t.reqItem)
            /\ alert' = <<t.user, "Success">>
            /\ tasks' = [tasks EXCEPT ![s].pc = "reload"]
       ELSE /\ alert' = <<t.user, "Error">>
            /\ tasks' = [tasks EXCEPT ![s] = Idle]
            /\ UNCHANGED <<items, trade_requests>>
  /\ UNCHANGED <<conversations, messages, hidden_conversations, views,
                 returnedIds, swipe, chat, social, live>>

\* the trailing loadMyItems() of toggleItemAvailability and deleteItem
MyItemsReload(s) ==
  LET t == tasks[s] IN
  /\ t.kind \in {"toggleItemAvailability", "deleteItem"} /\ t.pc = "reload"
  /\ \E ok \in BOOLEAN :
       IF ok
       THEN /\ myItems' = [myItems EXCEPT ![t.user] = OwnListings(t.user)]
            /\ alert' = NoAlert
       ELSE /\ alert' = <<t.user, "Error">>
            /\ UNCHANGED myItems
  /\ tasks' = [tasks EXCEPT ![s] = Idle]
  /\ UNCHANGED <<store, respond, chat, userItems, swipeItems, currentIndex,
                 swipedItemIds, animations, homeItems, detail, social, live>>

\* ---------------------------------------------------- SwipeCards (user u)
\* loadUserItems: the user's own listings with is_available; the list is
\* kept when the read fails
LoadUserItems(u) ==
  /\ screen[u] = "SwipeCards"
  /\ \E ok \in BOOLEAN :
       userItems' = [userItems EXCEPT ![u] =
                       IF ok
                       THEN SeqOf({i \in DOMAIN items :
                                     items[i].user_id = u /\ items[i].is_available})
                       ELSE @]
  /\ alert' = NoAlert
  /\ UNCHANGED <<store, tasks, respond, chat, swipeItems, currentIndex,
                 swipedItemIds, animations, myItems, homeItems, detail,
                 social, live>>

\* step 4: targets of the user's pending and accepted requests
RequestedItemIds(u) ==
  {r.target_item_id :
     r \in {x \in trade_requests : /\ x.requester_id = u
                                   /\ x.status \in {"pending", "accepted"}}}

\* step 4.5: both items of the accepted trades of the listings in the
\* userItems of the render that loadPotentialMatches was created in
AcceptedTradeItemIds(userItemIds) ==
  UNION {{r.requester_item_id, r.target_item_id} :
     r \in {x \in trade_requests :
              /\ x.status = "accepted"
              /\ \/ x.requester_item_id \in userItemIds
                 \/ x.target_item_id \in userItemIds}}

\* step 3 reads the available listings of other accounts; step 5 is the
\* filter; a read that fails yields no rows
FilteredItems(u, swiped, userItemIds, ok3, ok4, ok45) ==
  {i \in (IF ok3
           THEN {x \in DOMAIN items : items[x].user_id # u /\ items[x].is_available}
           ELSE {}) :
     /\ i \notin swiped
     /\ i \notin (IF ok4 THEN RequestedItemIds(u) ELSE {})
     /\ i \notin (IF ok45 THEN AcceptedTradeItemIds(userItemIds) ELSE {})}

\* setItems of loadPotentialMatches; swiped and cached are swipedItemIds and
\* userItems of the render that this loadPotentialMatches was created in
SetItems(u, swiped, cached) ==
  \E filteredItems \in {FilteredItems(u, swiped,
                                     {cached[k] : k \in 1..Len(cached)},
                                     ok3, ok4, ok45) :
                           ok3, ok4, ok45 \in BOOLEAN} :
     swipeItems' = [swipeItems EXCEPT ![u] = SeqOf(filteredItems)]

\* loadPotentialMatches (on mount and when a filter changes)
LoadPotentialMatches(u) ==
  /\ screen[u] = "SwipeCards"
  /\ SetItems(u, swipedItemIds[u], userItems[u])
  /\ alert' = NoAlert
  /\ UNCHANGED <<store, tasks, respond, chat, userItems, currentIndex,
                 swipedItemIds, animations, myItems, homeItems, detail,
                 social, live>>

\* the Refresh button and the Reset Swiped Items button, shown when no card
\* is left: the index and the swiped set are reset, and loadPotentialMatches
\* runs with the swiped set of the render it was created in
Refresh(u) ==
  /\ screen[u] = "SwipeCards"
  /\ currentIndex[u] >= Len(swipeItems[u])
  /\ currentIndex' = [currentIndex EXCEPT ![u] = 0]
  /\ swipedItemIds' = [swipedItemIds EXCEPT ![u] = {}]
  /\ SetItems(u, swipedItemIds[u], userItems[u])
  /\ alert' = NoAlert
  /\ UNCHANGED <<store, tasks, respond, chat, userItems, animations, myItems,
                 homeItems, detail, social, live>>

NextRequestId == Max({r.id : r \in trade_requests}) + 1

\* bound: the account may send another request, up to max, inserts in
\* flight included
MaySend(u, max) ==
  Cardinality({r \in trade_requests : r.requester_id = u})
     + Cardinality({s \in Slots : tasks[s].pc = "insert"
                                   /\ tasks[s].kind # "respondToTradeRequest"}) < max

\* a row addressed to the requester
NewTradeRequestToSelf(id, me, userItem, targetItem) ==
  TradeRequestRow(id, me, userItem, me, targetItem, "pending")
\* the row sendTradeRequest inserts
NewTradeRequest(id, me, userItem, targetItem) ==
  TradeRequestRow(id, me, userItem, OwnerOf(targetItem), targetItem, "pending")

\* handleSwipe: the top card is swiped; right calls sendTradeRequest, which
\* runs up to its insert (or stops at "No Items"); the card animation starts
\* (at most MaxTasks animations of an account run at once), and the callback
\* of a right swipe keeps the swipedItemIds and userItems of this render
HandleSwipeUpTo(u, direction, max) ==
  /\ screen[u] = "SwipeCards"
  /\ currentIndex[u] < Len(swipeItems[u])
  /\ Cardinality(animations[u]) < MaxTasks
  /\ LET currentItem == swipeItems[u][currentIndex[u] + 1] IN
     /\ swipedItemIds' = [swipedItemIds EXCEPT ![u] = @ \cup {currentItem}]
     /\ animations' = [animations EXCEPT ![u] =
           @ \cup {IF direction = "right"
                    THEN [index |-> currentIndex[u], direction |-> direction,
                          swiped |-> swipedItemIds[u], cached |-> userItems[u]]
                    ELSE [index |-> currentIndex[u], direction |-> direction,
                          swiped |-> {}, cached |-> <<>>]}]
     /\ IF direction = "right"
        THEN IF userItems[u] = <<>>
             THEN alert' = <<u, "No Items">> /\ UNCHANGED tasks
             ELSE /\ FreeSlots(u) # {} /\ MaySend(u, max)
                  /\ tasks' = [tasks EXCEPT ![FreeSlot(u)] =
                        [Idle EXCEPT !.kind = "sendTradeRequest", !.user = u,
                                     !.pc = "insert",
                                     !.reqItem = userItems[u][1],
                                     !.tgtItem = currentItem,
                                     !.other = OwnerOf(currentItem)]]
                  /\ alert' = NoAlert
        ELSE alert' = NoAlert /\ UNCHANGED tasks
  /\ UNCHANGED <<store, respond, chat, userItems, swipeItems, currentIndex, myItems,
                 homeItems, detail, social, live>>

\* the end of a card animation: the index captured by handleSwipe plus one,
\* and after a right swipe the loadPotentialMatches of the render that
\* handleSwipe ran in, whose swipedItemIds does not hold the swiped card yet
AnimationEnd(u, a) ==
  /\ a \in animations[u]
  /\ animations' = [animations EXCEPT ![u] = @ \ {a}]
  /\ currentIndex' = [currentIndex EXCEPT ![u] = a.index + 1]
  /\ IF a.direction = "right"
     THEN SetItems(u, a.swiped, a.cached)
     ELSE UNCHANGED swipeItems
  /\ alert' = NoAlert
  /\ UNCHANGED <<store, tasks, respond, chat, userItems, swipedItemIds, myItems,
                 homeItems, detail, social, live>>

\* the insert of sendTradeRequest: both items are foreign keys, so the
\* insert fails when one of them is gone
SendInsert(s) ==
  LET t == tasks[s] IN
  /\ t.kind = "sendTradeRequest" /\ t.pc = "insert"
  /\ \E ok \in BOOLEAN :
       IF ok /\ {t.reqItem, t.tgtItem} \subseteq DOMAIN items
       THEN /\ trade_requests' = trade_requests \cup
                 {NewTradeRequest(NextRequestId, t.user, t.reqItem, t.tgtItem)}
            /\ alert' = <<t.user, "Trade Request Sent!">>
            /\ swipeItems' = [swipeItems EXCEPT ![t.user] =
                                SelectSeq(@, LAMBDA i : i # t.tgtItem)]
       ELSE /\ alert' = <<t.user, "Error">>
            /\ UNCHANGED <<trade_requests, swipeItems>>
  /\ tasks' = [tasks EXCEPT ![s] = Idle]
  /\ UNCHANGED <<items, conversations, messages, hidden_conversations, views,
                 returnedIds, userItems, currentIndex, swipedItemIds,
                 animations, myItems, homeItems, detail, chat, social, live>>

\* ---------------------------------- HomeScreen, ItemDetailScreen (user u)
\* fetchItems: listings of other accounts with status available
FetchItems(u) ==
  /\ screen[u] = "HomeScreen"
  /\ \E ok \in BOOLEAN :
       IF ok
       THEN /\ homeItems' = [homeItems EXCEPT ![u] =
                 {i \in DOMAIN items : items[i].status = "available"
                                        /\ items[i].user_id # u}]
            /\ alert' = NoAlert
       ELSE /\ alert' = <<u, "Error">>
            /\ UNCHANGED homeItems
  /\ UNCHANGED <<store, tasks, respond, chat, userItems, swipeItems, currentIndex,
                 swipedItemIds, animations, myItems, detail, social, live>>

\* the user's own listings with status available
OwnStatusAvailable(u) ==
  {i \in DOMAIN items : items[i].user_id = u /\ items[i].status = "available"}

\* HomeScreen.handleTradeRequest: reads the user's own available listings
\* and opens ItemDetailScreen with them; an error when the read fails or
\* finds none
HandleTradeRequest(u, item) ==
  /\ screen[u] = "HomeScreen"
  /\ item \in homeItems[u]
  /\ \E ok \in BOOLEAN :
       IF ok /\ OwnStatusAvailable(u) # {}
       THEN /\ detail' = [detail EXCEPT ![u] =
                 [item |-> item, userItems |-> OwnStatusAvailable(u),
                  currentUser |-> 0]]
            /\ alert' = NoAlert
       ELSE /\ alert' = <<u, "Error">>
            /\ UNCHANGED detail
  /\ UNCHANGED <<store, tasks, respond, chat, userItems, swipeItems, currentIndex,
                 swipedItemIds, animations, myItems, homeItems, social, live>>

\* ItemDetailScreen.getCurrentUser: null when the call fails
DetailGetCurrentUser(u) ==
  /\ screen[u] = "HomeScreen"
  /\ detail[u].item # 0
  /\ \E ok \in BOOLEAN :
       detail' = [detail EXCEPT ![u].currentUser = IF ok THEN u ELSE 0]
  /\ alert' = NoAlert
  /\ UNCHANGED <<store, tasks, respond, chat, userItems, swipeItems, currentIndex,
                 swipedItemIds, animations, myItems, homeItems, social, live>>

\* submitTradeRequest up to its insert; currentUser.id throws while
\* currentUser is null
SubmitTradeRequest(u, selectedUserItem) ==
  /\ screen[u] = "HomeScreen"
  /\ detail[u].item # 0
  /\ selectedUserItem \in detail[u].userItems
  /\ IF detail[u].currentUser = 0
     THEN alert' = <<u, "Error">> /\ UNCHANGED tasks
     ELSE /\ FreeSlots(u) # {} /\ MaySend(u, MaxRequests)
          /\ tasks' = [tasks EXCEPT ![FreeSlot(u)] =
                [Idle EXCEPT !.kind = "submitTradeRequest",
                             !.user = detail[u].currentUser, !.pc = "insert",
                             !.reqItem = selectedUserItem,
                             !.tgtItem = detail[u].item,
                             !.other = OwnerOf(detail[u].item)]]
          /\ alert' = NoAlert
  /\ UNCHANGED <<store, respond, chat, swipe, social, live>>

\* the insert of submitTradeRequest; navigation.goBack() on success
SubmitInsert(s) ==
  LET t == tasks[s] IN
  /\ t.kind = "submitTradeRequest" /\ t.pc = "insert"
  /\ \E ok \in BOOLEAN :
       IF ok /\ {t.reqItem, t.tgtItem} \subseteq DOMAIN items
       THEN /\ trade_requests' = trade_requests \cup
                 {TradeRequestRow(NextRequestId, t.user, t.reqItem,
                                  OwnerOf(t.tgtItem), t.tgtItem, "pending")}
            /\ alert' = <<t.user, "Success">>
            /\ detail' = [detail EXCEPT ![t.user] =
                 [item |-> 0, userItems |-> {}, currentUser |-> 0]]
       ELSE /\ alert' = <<t.user, "Error">>
            /\ UNCHANGED <<trade_requests, detail>>
  /\ tasks' = [tasks EXCEPT ![s] = Idle]
  /\ UNCHANGED <<items, conversations, messages, hidden_conversations, views,
                 returnedIds, userItems, swipeItems, currentIndex,
                 swipedItemIds, animations, myItems, homeItems, chat, social,
                 live>>

\* the store is seeded, no request exists, and one account has the client
\* open, in the revision with SwipeCards and MyItems or in the one with
\* HomeScreen
CreateInit ==
  /\ Fresh
  /\ messages = {}
  /\ friendships = {}
  /\ conversations = {}
  /\ hidden_conversations = {}
  /\ trade_requests = {}
  /\ \E c \in {"SwipeCards", "HomeScreen"} : \E a \in Users :
        screen = [u \in Users |-> IF u = a THEN c ELSE "closed"]
  /\ subscriptions = Subscribed(screen)

CreateNext ==
  \/ \E u \in Users : LoadMyItems(u)
  \/ \E u \in Users : \E l \in myItems[u] : ToggleItemAvailability(u, l)
  \/ \E s \in Slots : ToggleUpdate(s)
  \/ \E u \in Users : \E l \in myItems[u] : DeleteItem(u, l)
  \/ \E s \in Slots : ItemDelete(s)
  \/ \E s \in Slots : MyItemsReload(s)
  \/ \E u \in Users : LoadUserItems(u)
  \/ \E u \in Users : LoadPotentialMatches(u)
  \/ \E u \in Users : Refresh(u)
  \/ \E u \in Users : \E d \in {"left", "right"} : HandleSwipeUpTo(u, d, MaxRequests)
  \/ \E u \in Users : \E a \in animations[u] : AnimationEnd(u, a)
  \/ \E s \in Slots : SendInsert(s)
  \/ \E u \in Users : FetchItems(u)
  \/ \E u \in Users : \E i \in homeItems[u] : HandleTradeRequest(u, i)
  \/ \E u \in Users : DetailGetCurrentUser(u)
  \/ \E u \in Users : \E i \in detail[u].userItems : SubmitTradeRequest(u, i)
  \/ \E s \in Slots : SubmitInsert(s)

SpecCreate == CreateInit /\ [][CreateNext]_vars

\* the feed of SwipeCards alone: one account has SwipeCards open, and the
\* other account may have a request to it accepted earlier
FeedInit ==
  /\ Fresh
  /\ messages = {}
  /\ friendships = {}
  /\ conversations = {}
  /\ hidden_conversations = {}
  /\ \E a \in Users :
        /\ screen = [u \in Users |-> IF u = a THEN "SwipeCards" ELSE "closed"]
        /\ \E b \in Users \ {a} :
              trade_requests \in
                 SUBSET {TradeRequestRow(1, b, b, a, a, "accepted")}
  /\ subscriptions = Subscribed(screen)

FeedNext ==
  \/ \E u \in Users : LoadUserItems(u)
  \/ \E u \in Users : LoadPotentialMatches(u)
  \/ \E u \in Users : Refresh(u)
  \/ \E u \in Users : \E d \in {"left", "right"} : HandleSwipeUpTo(u, d, MaxSends)
  \/ \E u \in Users : \E a \in animations[u] : AnimationEnd(u, a)
  \/ \E s \in Slots : SendInsert(s)

SpecFeed == FeedInit /\ [][FeedNext]_vars

\* ------------------------------------------- MessagesList, conversations
MaxLength == 1000    \* maxLength of the ChatScreen Input
MaxTexts == 1        \* messages the open client may send from ChatScreen

\* the third account never opens the client
Accounts == Users \cup {3}

\* .or(`user1_id.eq.${me},user2_id.eq.${me}`)
ParticipantIn(u) == {c \in conversations : c.user1_id = u \/ c.user2_id = u}

\* the conversation ids in the caller's hidden_conversations rows
HiddenIds(u) == {h[1] : h \in {x \in hidden_conversations : x[2] = u}}

\* .eq("conversation_id", c).eq("is_read", false).neq("sender_id", me)
Unread(c, u) ==
  {m \in messages : m.conversation_id = c /\ ~m.is_read /\ m.sender_id # u}

\* the oldest activity comes first
OldestFirst(c, d) ==
  \/ c.last_message_at < d.last_message_at
  \/ c.last_message_at = d.last_message_at /\ c.id <= d.id
\* .order("last_message_at", { ascending: false }), rows of one timestamp
\* in the order of their ids
MostRecentFirst(c, d) ==
  \/ c.last_message_at > d.last_message_at
  \/ c.last_message_at = d.last_message_at /\ c.id <= d.id

RECURSIVE Ordered(_)
Ordered(rows) ==
  IF rows = {} THEN <<>>
  ELSE LET c == CHOOSE x \in rows : \A d \in rows : MostRecentFirst(x, d)
       IN <<c>> \o Ordered(rows \ {c})

\* what loadConversations puts in the list: the caller's conversations
\* without the hidden ones (all of them when the read of
\* hidden_conversations has failed), each with its unread count (0 when
\* that read has failed)
LoadedConversations(u, okHidden, okUnread) ==
  LET hiddenConversationIds == IF okHidden THEN HiddenIds(u) ELSE {}
      filteredConversations ==
        Ordered({c \in ParticipantIn(u) : c.id \notin hiddenConversationIds})
  IN [k \in 1..Len(filteredConversations) |->
        [id |-> filteredConversations[k].id,
         unread_count |->
            IF okUnread
            THEN Cardinality(Unread(filteredConversations[k].id, u))
            ELSE 0]]

\* setConversations of a MessagesList that is still mounted
SetConversations(u, list) ==
  convList' = IF screen[u] = "MessagesList"
              THEN [convList EXCEPT ![u] = list]
              ELSE convList

\* loadConversations (on mount and on every notification of conversations
\* and messages): the list is kept when the read of conversations fails
LoadConversations(u) ==
  /\ screen[u] = "MessagesList"
  /\ \E okConversations, okHidden, okUnread \in BOOLEAN :
       IF okConversations
       THEN SetConversations(u, LoadedConversations(u, okHidden, okUnread))
       ELSE UNCHANGED convList
  /\ alert' = NoAlert
  /\ marked' = NoMark
  /\ UNCHANGED <<store, tasks, views, returnedIds, swipe, selected,
                 newMessage, marking, social, live>>

\* hideConversation up to its first await, from the confirmation modal
HideConversation(u, c) ==
  /\ screen[u] = "MessagesList"
  /\ c \in {convList[u][k].id : k \in 1..Len(convList[u])}
  /\ FreeSlots(u) # {}
  /\ tasks' = [tasks EXCEPT ![FreeSlot(u)] =
        [Idle EXCEPT !.kind = "hideConversation", !.user = u, !.pc = "rpc",
                     !.conv = c]]
  /\ alert' = NoAlert
  /\ marked' = NoMark
  /\ UNCHANGED <<store, views, returnedIds, swipe, convList, selected,
                 newMessage, marking, social, live>>

\* rpc hide_conversation_for_user: the caller's marker, once
HideConversationForUser(hidden, conversationId, userId) ==
  hidden \cup {<<conversationId, userId>>}

\* hideConversation: the rpc, the verifying read (its result is only
\* logged) and the local filter; an rpc error is thrown to the alert
HideRpc(s) ==
  LET t == tasks[s] IN
  /\ t.kind = "hideConversation" /\ t.pc = "rpc"
  /\ \E ok \in BOOLEAN :
       IF ok
       THEN /\ hidden_conversations' =
                 HideConversationForUser(hidden_conversations, t.conv, t.user)
            /\ SetConversations(t.user,
                                SelectSeq(convList[t.user], LAMBDA e : e.id # t.conv))
            /\ tasks' = [tasks EXCEPT ![s].pc = "reload"]
            /\ alert' = NoAlert
       ELSE /\ alert' = <<t.user, "Failed to hide conversation">>
            /\ tasks' = [tasks EXCEPT ![s] = Idle]
            /\ UNCHANGED <<hidden_conversations, convList>>
  /\ marked' = NoMark
  /\ UNCHANGED <<items, trade_requests, conversations, messages, views,
                 returnedIds, swipe, selected, newMessage, marking, social,
                 live>>

\* the trailing await loadConversations() of hideConversation
HideReload(s) ==
  LET t == tasks[s] IN
  /\ t.kind = "hideConversation" /\ t.pc = "reload"
  /\ \E okConversations, okHidden, okUnread \in BOOLEAN :
       IF okConversations
       THEN SetConversations(t.user,
                             LoadedConversations(t.user, okHidden, okUnread))
       ELSE UNCHANGED convList
  /\ tasks' = [tasks EXCEPT ![s] = Idle]
  /\ alert' = NoAlert
  /\ marked' = NoMark
  /\ UNCHANGED <<store, views, returnedIds, swipe, selected, newMessage,
                 marking, social, live>>

\* the update with .eq("sender_id", me) in place of .neq
MarkOwnMessagesRead(rows, conversationId, me) ==
  {IF m.conversation_id = conversationId /\ ~m.is_read /\ m.sender_id = me
   THEN [m EXCEPT !.is_read = TRUE] ELSE m : m \in rows}
\* the update of markMessagesAsRead and of the second approach of
\* handleConversationSelect: is_read = true on the unread messages of the
\* conversation that the caller has not sent
MarkMessagesRead(rows, conversationId, me) ==
  {IF m.conversation_id = conversationId /\ ~m.is_read /\ m.sender_id # me
   THEN [m EXCEPT !.is_read = TRUE] ELSE m : m \in rows}

\* rpc mark_conversation_messages_read
MarkConversationMessagesRead(rows, convId, userId) ==
  {IF m.conversation_id = convId /\ m.sender_id # userId
   THEN [m EXCEPT !.is_read = TRUE] ELSE m : m \in rows}

\* the update by id as a toggle of is_read
ToggleMessageRead(rows, messageId) ==
  {IF m.id = messageId THEN [m EXCEPT !.is_read = ~m.is_read] ELSE m :
     m \in rows}
\* .update({ is_read: true }).eq("id", messageId)
MarkMessageRead(rows, messageId) ==
  {IF m.id = messageId THEN [m EXCEPT !.is_read = TRUE] ELSE m : m \in rows}

\* handleConversationSelect up to its first await: App shows ChatScreen
\* in place of MessagesList, ChatScreen mounts with an empty Input and
\* calls markMessagesAsRead; the marking of handleConversationSelect
\* starts when the list showed unread messages
HandleConversationSelect(u, conversation) ==
  /\ screen[u] = "MessagesList"
  /\ marking[u] = 0
  /\ screen' = [screen EXCEPT ![u] = "ChatScreen"]
  /\ selected' = [selected EXCEPT ![u] = conversation.id]
  /\ convList' = [convList EXCEPT ![u] = <<>>]
  /\ newMessage' = [newMessage EXCEPT ![u] = NoText]
  /\ marking' = [marking EXCEPT ![u] = conversation.id]
  /\ IF conversation.unread_count > 0
     THEN /\ FreeSlots(u) # {}
          /\ tasks' = [tasks EXCEPT ![FreeSlot(u)] =
                [Idle EXCEPT !.kind = "handleConversationSelect",
                             !.user = u, !.pc = "rpc",
                             !.conv = conversation.id]]
     ELSE UNCHANGED tasks
  /\ alert' = NoAlert
  /\ marked' = NoMark
  \* MessagesList unmounts and closes its channels: what its reads in
  \* flight return goes to no list; ChatScreen mounts, calls loadMessages
  \* and opens its channel
  /\ refreshes' = [refreshes EXCEPT ![u] = <<>>]
  /\ subscriptions' = (subscriptions \ {<<u, "MessagesList">>})
                         \cup {<<u, "ChatScreen">>}
  /\ chatMessages' = [chatMessages EXCEPT ![u] = <<>>]
  /\ notifications' = [notifications EXCEPT ![u] = <<>>]
  /\ loading' = [loading EXCEPT ![u] = "select"]
  /\ UNCHANGED <<store, tradeRequests, incomingRequests, screenRequests,
                 currentUser, returnedIds, swipe, social>>

\* approach 1: the rpc
SelectRpc(s) ==
  LET t == tasks[s] IN
  /\ t.kind = "handleConversationSelect" /\ t.pc = "rpc"
  /\ \E ok \in BOOLEAN :
       IF ok
       THEN /\ messages' = MarkConversationMessagesRead(messages, t.conv, t.user)
            /\ marked' = <<t.user, t.conv>>
            /\ tasks' = [tasks EXCEPT ![s] = Idle]
       ELSE /\ tasks' = [tasks EXCEPT ![s].pc = "direct"]
            /\ marked' = NoMark
            /\ UNCHANGED messages
  /\ alert' = NoAlert
  /\ UNCHANGED <<items, trade_requests, conversations, hidden_conversations,
                 views, returnedIds, swipe, convList, selected, newMessage,
                 marking, social, live>>

\* approach 2: the direct update
SelectDirect(s) ==
  LET t == tasks[s] IN
  /\ t.kind = "handleConversationSelect" /\ t.pc = "direct"
  /\ \E ok \in BOOLEAN :
       IF ok
       THEN /\ messages' = MarkMessagesRead(messages, t.conv, t.user)
            /\ marked' = <<t.user, t.conv>>
            /\ tasks' = [tasks EXCEPT ![s] = Idle]
       ELSE /\ tasks' = [tasks EXCEPT ![s].pc = "individual"]
            /\ marked' = NoMark
            /\ UNCHANGED messages
  /\ alert' = NoAlert
  /\ UNCHANGED <<items, trade_requests, conversations, hidden_conversations,
                 views, returnedIds, swipe, convList, selected, newMessage,
                 marking, social, live>>

\* approach 3: the read of the unread ids; nothing more happens when it
\* fails or finds none
SelectUnread(s) ==
  LET t == tasks[s]
      unreadMessages == {m.id : m \in Unread(t.conv, t.user)}
  IN
  /\ t.kind = "handleConversationSelect" /\ t.pc = "individual"
  /\ \E ok \in BOOLEAN :
       IF ok /\ unreadMessages # {}
       THEN /\ tasks' = [tasks EXCEPT ![s].pc = "each",
                                      ![s].ids = unreadMessages]
            /\ marked' = NoMark
       ELSE /\ tasks' = [tasks EXCEPT ![s] = Idle]
            /\ marked' = IF ok THEN <<t.user, t.conv>> ELSE NoMark
  /\ alert' = NoAlert
  /\ UNCHANGED <<store, views, returnedIds, swipe, convList, selected,
                 newMessage, marking, social, live>>

\* approach 3: one update for each id read, a failed one only logged
SelectEach(s) ==
  LET t == tasks[s]
      message == CHOOSE i \in t.ids : \A j \in t.ids : i <= j
  IN
  /\ t.kind = "handleConversationSelect" /\ t.pc = "each"
  /\ \E ok \in BOOLEAN :
       /\ messages' = IF ok THEN MarkMessageRead(messages, message)
                      ELSE messages
       /\ IF t.ids = {message}
          THEN /\ tasks' = [tasks EXCEPT ![s] = Idle]
               /\ marked' = IF ok /\ ~t.failed THEN <<t.user, t.conv>>
                            ELSE NoMark
          ELSE /\ tasks' = [tasks EXCEPT ![s].ids = @ \ {message},
                                         ![s].failed = @ \/ ~ok]
               /\ marked' = NoMark
  /\ alert' = NoAlert
  /\ UNCHANGED <<items, trade_requests, conversations, hidden_conversations,
                 views, returnedIds, swipe, convList, selected, newMessage,
                 marking, social, live>>

\* ------------------------------------------------------------ ChatScreen
\* markMessagesAsRead of the mount effect: one update, its result not read
MarkMessagesAsRead(u) ==
  /\ marking[u] # 0
  /\ \E ok \in BOOLEAN :
       /\ messages' = IF ok THEN MarkMessagesRead(messages, marking[u], u)
                      ELSE messages
       /\ marked' = IF ok THEN <<u, marking[u]>> ELSE NoMark
  /\ marking' = [marking EXCEPT ![u] = 0]
  /\ alert' = NoAlert
  /\ UNCHANGED <<items, trade_requests, conversations, hidden_conversations,
                 tasks, views, returnedIds, swipe, convList, selected,
                 newMessage, social, live>>

\* what the user types or pastes into the Input
TypedTexts == {Text(2, 0), Text(1, 5), Text(0, MaxLength + 1)}

\* maxLength of the Input: the first n characters
Truncate(text, n) ==
  IF text.core >= n THEN Text(0, n)
  ELSE IF text.core + text.pad > n THEN Text(n - text.core, text.core)
       ELSE text

\* String.trim(): the length without the blanks at the ends
Trim(text) == text.core

\* onChangeText={setNewMessage} behind maxLength
SetNewMessage(u, text) ==
  /\ screen[u] = "ChatScreen"
  /\ newMessage' = [newMessage EXCEPT ![u] = Truncate(text, MaxLength)]
  /\ alert' = NoAlert
  /\ marked' = NoMark
  /\ UNCHANGED <<store, tasks, views, returnedIds, swipe, convList, selected,
                 marking, social, live>>

\* state sending: a sendMessage of the account awaits its insert
Sending(u) ==
  \E s \in Slots : s[1] = u /\ tasks[s].kind = "sendMessage"

\* sending as sendMessage and the Button read it: the value of the render
\* that made them, true once the component has rendered again after
\* setSending(true)
SendingRendered(u) ==
  \E s \in Slots : /\ s[1] = u
                   /\ tasks[s].kind = "sendMessage"
                   /\ tasks[s].rendered

\* the component renders again with sending = true
RenderSending(u) ==
  /\ screen[u] = "ChatScreen"
  /\ Sending(u) /\ ~SendingRendered(u)
  /\ tasks' = [s \in Slots |->
                 IF s[1] = u /\ tasks[s].kind = "sendMessage"
                 THEN [tasks[s] EXCEPT !.rendered = TRUE]
                 ELSE tasks[s]]
  /\ alert' = NoAlert
  /\ marked' = NoMark
  /\ UNCHANGED <<store, views, returnedIds, swipe, convList, selected,
                 newMessage, marking, social, live>>

\* sendMessage up to its await: nothing when the trimmed text is empty or
\* a send is under way
SendMessage(u) ==
  /\ screen[u] = "ChatScreen"
  /\ IF Trim(newMessage[u]) = 0 \/ SendingRendered(u)
     THEN UNCHANGED tasks
     ELSE /\ FreeSlots(u) # {}
          /\ Cardinality({m \in messages : m.sender_id = u}) < MaxTexts
          /\ tasks' = [tasks EXCEPT ![FreeSlot(u)] =
                [Idle EXCEPT !.kind = "sendMessage", !.user = u,
                             !.pc = "insert", !.conv = selected[u],
                             !.text = newMessage[u]]]
  /\ alert' = NoAlert
  /\ marked' = NoMark
  /\ UNCHANGED <<store, views, returnedIds, swipe, convList, selected,
                 newMessage, marking, social, live>>

\* what the store does on an insert into messages: the conversation's
\* last_message_at becomes now
TouchConversation(rows, conversationId) ==
  {IF c.id = conversationId THEN [c EXCEPT !.last_message_at = Now] ELSE c :
     c \in rows}

\* the insert of sendMessage; the Input is cleared after a success
SendMessageInsert(s) ==
  LET t == tasks[s] IN
  /\ t.kind = "sendMessage" /\ t.pc = "insert"
  /\ \E ok \in BOOLEAN :
       IF ok
       THEN /\ messages' = messages \cup
                 {MessageRow(NextMessageId, t.conv, t.user, Trim(t.text))}
            /\ conversations' = TouchConversation(conversations, t.conv)
            /\ newMessage' = IF screen[t.user] = "ChatScreen"
                             THEN [newMessage EXCEPT ![t.user] = NoText]
                             ELSE newMessage
            /\ notifications' =
                 Notify(MessageRow(NextMessageId, t.conv, t.user, Trim(t.text)))
            /\ alert' = NoAlert
       ELSE /\ alert' = <<t.user, "Error">>
            /\ UNCHANGED <<messages, conversations, newMessage,
                           notifications>>
  /\ tasks' = [tasks EXCEPT ![s] = Idle]
  /\ marked' = NoMark
  /\ UNCHANGED <<items, trade_requests, hidden_conversations, views,
                 returnedIds, swipe, convList, selected, marking, social>>
  /\ UNCHANGED <<chatMessages, loading, refreshes, subscriptions>>

\* handleBackToMessages: App shows MessagesList again, newly mounted
HandleBackToMessages(u) ==
  /\ screen[u] = "ChatScreen"
  /\ screen' = [screen EXCEPT ![u] = "MessagesList"]
  /\ selected' = [selected EXCEPT ![u] = 0]
  /\ newMessage' = [newMessage EXCEPT ![u] = NoText]
  /\ alert' = NoAlert
  /\ marked' = NoMark
  \* ChatScreen unmounts and closes its channel
  /\ subscriptions' = (subscriptions \ {<<u, "ChatScreen">>})
                         \cup {<<u, "MessagesList">>}
  /\ chatMessages' = [chatMessages EXCEPT ![u] = <<>>]
  /\ notifications' = [notifications EXCEPT ![u] = <<>>]
  /\ loading' = [loading EXCEPT ![u] = "idle"]
  /\ UNCHANGED refreshes
  /\ UNCHANGED <<store, tasks, tradeRequests, incomingRequests,
                 screenRequests, currentUser, returnedIds, swipe, convList,
                 marking, social>>

\* account 1 has MessagesList open; it has a conversation with account 2
\* and a more recent one with account 3, both with messages it has not read
ChatInit ==
  /\ Fresh
  /\ trade_requests = {}
  /\ friendships = {}
  /\ screen = [u \in Users |-> IF u = 1 THEN "MessagesList" ELSE "closed"]
  /\ conversations = {ConversationRow(1, 1, 2, 1), ConversationRow(2, 1, 3, 2)}
  /\ hidden_conversations = {}
  /\ messages = {MessageRow(1, 1, 2, 5), MessageRow(2, 1, 2, 5),
                 MessageRow(3, 2, 3, 5)}
  /\ subscriptions = Subscribed(screen)

ChatNext ==
  \/ \E u \in Users : LoadConversations(u)
  \/ \E u \in Users : \E k \in 1..Len(convList[u]) :
        HideConversation(u, convList[u][k].id)
  \/ \E s \in Slots : HideRpc(s)
  \/ \E s \in Slots : HideReload(s)
  \/ \E u \in Users : \E k \in 1..Len(convList[u]) :
        HandleConversationSelect(u, convList[u][k])
  \/ \E s \in Slots : SelectRpc(s)
  \/ \E s \in Slots : SelectDirect(s)
  \/ \E s \in Slots : SelectUnread(s)
  \/ \E s \in Slots : SelectEach(s)
  \/ \E u \in Users : MarkMessagesAsRead(u)
  \/ \E u \in Users : \E text \in TypedTexts : SetNewMessage(u, text)
  \/ \E u \in Users : SendMessage(u)
  \/ \E u \in Users : RenderSending(u)
  \/ \E s \in Slots : SendMessageInsert(s)
  \/ \E u \in Users : HandleBackToMessages(u)

SpecChat == ChatInit /\ [][ChatNext]_vars

\* reading and hiding, without the sending of messages
ReadNext ==
  \/ \E u \in Users : LoadConversations(u)
  \/ \E u \in Users : \E k \in 1..Len(convList[u]) :
        HideConversation(u, convList[u][k].id)
  \/ \E s \in Slots : HideRpc(s)
  \/ \E s \in Slots : HideReload(s)
  \/ \E u \in Users : \E k \in 1..Len(convList[u]) :
        HandleConversationSelect(u, convList[u][k])
  \/ \E s \in Slots : SelectRpc(s)
  \/ \E s \in Slots : SelectDirect(s)
  \/ \E s \in Slots : SelectUnread(s)
  \/ \E s \in Slots : SelectEach(s)
  \/ \E u \in Users : MarkMessagesAsRead(u)
  \/ \E u \in Users : HandleBackToMessages(u)

SpecRead == ChatInit /\ [][ReadNext]_vars

\* as ChatInit, with every message read
SendInit ==
  /\ Fresh
  /\ trade_requests = {}
  /\ friendships = {}
  /\ screen = [u \in Users |-> IF u = 1 THEN "MessagesList" ELSE "closed"]
  /\ conversations = {ConversationRow(1, 1, 2, 1), ConversationRow(2, 1, 3, 2)}
  /\ hidden_conversations = {}
  /\ messages = {[MessageRow(1, 1, 2, 5) EXCEPT !.is_read = TRUE],
                 [MessageRow(2, 2, 3, 5) EXCEPT !.is_read = TRUE]}
  /\ subscriptions = Subscribed(screen)

\* opening a conversation and sending; with nothing unread the marking of
\* handleConversationSelect does not start
SendNext ==
  \/ \E u \in Users : LoadConversations(u)
  \/ \E u \in Users : \E k \in 1..Len(convList[u]) :
        HandleConversationSelect(u, convList[u][k])
  \/ \E u \in Users : MarkMessagesAsRead(u)
  \/ \E u \in Users : \E text \in TypedTexts : SetNewMessage(u, text)
  \/ \E u \in Users : SendMessage(u)
  \/ \E u \in Users : RenderSending(u)
  \/ \E s \in Slots : SendMessageInsert(s)
  \/ \E u \in Users : HandleBackToMessages(u)

SpecSend == SendInit /\ [][SendNext]_vars

\* ----------------------------------- FriendSearch, friend requests (u)
\* a row of friendships
FriendshipRow(id, requesterId, addresseeId, status) ==
  [id |-> id, requester_id |-> requesterId, addressee_id |-> addresseeId,
   status |-> status]

\* profiles.username of the accounts
Username(a) ==
  CASE a = 1 -> <<"a", "l">> [] a = 2 -> <<"b", "o">> [] OTHER -> <<"b">>

\* String.prototype.trim() on the query
RECURSIVE TrimStart(_)
TrimStart(q) ==
  IF q # <<>> /\ Head(q) = " " THEN TrimStart(Tail(q)) ELSE q

RECURSIVE TrimEnd(_)
TrimEnd(q) ==
  IF q # <<>> /\ q[Len(q)] = " " THEN TrimEnd(SubSeq(q, 1, Len(q) - 1)) ELSE q

TrimQuery(q) == TrimEnd(TrimStart(q))

Lower(ch) == IF ch = "B" THEN "b" ELSE ch

\* .ilike("username", `%${pattern}%`): the pattern occurs in the username,
\* letter case ignored
ILike(username, pattern) ==
  \E i \in 0..(Len(username) - Len(pattern)) :
     \A k \in 1..Len(pattern) : Lower(username[i + k]) = Lower(pattern[k])

\* searchUsers with the query typed: a blank query clears the results and
\* reads nothing
SearchUsers(u) ==
  /\ screen[u] = "FriendSearch"
  /\ \E query \in {<<" ">>, <<"B">>, <<"b", "o", " ">>, <<"l">>} :
       IF TrimQuery(query) = <<>>
       THEN /\ searchResults' = [searchResults EXCEPT ![u] = {}]
            /\ UNCHANGED tasks
       ELSE /\ FreeSlots(u) # {}
            /\ tasks' = [tasks EXCEPT ![FreeSlot(u)] =
                  [Idle EXCEPT !.kind = "searchUsers", !.user = u,
                               !.pc = "select", !.query = query]]
            /\ UNCHANGED searchResults
  /\ UNCHANGED <<store, views, returnedIds, alert, swipe, chat, friendships,
                 friendRequests, live>>

\* the select of searchUsers and setSearchResults: the other profiles whose
\* username matches (.limit(10) is above the accounts here)
SearchSelect(s) ==
  /\ tasks[s].kind = "searchUsers"
  /\ tasks[s].pc = "select"
  /\ \E ok \in BOOLEAN :
       IF ok
       THEN /\ searchResults' = [searchResults EXCEPT ![tasks[s].user] =
                  {a \in Accounts :
                     /\ a # tasks[s].user
                     /\ ILike(Username(a), TrimQuery(tasks[s].query))}]
            /\ alert' = NoAlert
       ELSE /\ alert' = <<tasks[s].user, "Error">>
            /\ UNCHANGED searchResults
  /\ tasks' = [tasks EXCEPT ![s] = Idle]
  /\ UNCHANGED <<store, views, returnedIds, swipe, chat, friendships,
                 friendRequests, live>>

\* the rows the .or() filter of sendFriendRequest matches: the pair in
\* either direction, whatever the status
FriendshipsBetween(me, addresseeId) ==
  {f \in friendships :
     \/ f.requester_id = me /\ f.addressee_id = addresseeId
     \/ f.requester_id = addresseeId /\ f.addressee_id = me}

\* Add Friend on a search result
SendFriendRequest(u, addresseeId) ==
  /\ screen[u] = "FriendSearch"
  /\ addresseeId \in searchResults[u]
  /\ \A s \in Slots : tasks[s].user = u /\ tasks[s].kind = "sendFriendRequest"
                         => tasks[s].other # addresseeId
  /\ FreeSlots(u) # {}
  /\ Cardinality(friendships) < MaxFriendships
  /\ tasks' = [tasks EXCEPT ![FreeSlot(u)] =
        [Idle EXCEPT !.kind = "sendFriendRequest", !.user = u,
                     !.pc = "check", !.other = addresseeId]]
  /\ UNCHANGED <<store, views, returnedIds, alert, swipe, chat, social, live>>

\* the existence check: .single() gives the row only when exactly one row
\* matches; its error is not read, so no row, several rows and a failed
\* read all leave existingFriendship null
FriendCheck(s) ==
  /\ tasks[s].kind = "sendFriendRequest"
  /\ tasks[s].pc = "check"
  /\ \E ok \in BOOLEAN :
       LET matching == FriendshipsBetween(tasks[s].user, tasks[s].other)
           existingFriendship == ok /\ Cardinality(matching) = 1
       IN  IF existingFriendship
           THEN /\ alert' = <<tasks[s].user, "Already Connected">>
                /\ tasks' = [tasks EXCEPT ![s] = Idle]
           ELSE /\ alert' = NoAlert
                /\ tasks' = [tasks EXCEPT ![s].pc = "insert"]
  /\ UNCHANGED <<store, views, returnedIds, swipe, chat, social, live>>

\* the insert of the pending row; on success the addressee leaves the
\* search results
FriendInsert(s) ==
  /\ tasks[s].kind = "sendFriendRequest"
  /\ tasks[s].pc = "insert"
  /\ \E ok \in BOOLEAN :
       IF ok
       THEN /\ friendships' = friendships \cup
                  {FriendshipRow(Max({f.id : f \in friendships}) + 1, tasks[s].user,
                                 tasks[s].other, "pending")}
            /\ alert' = <<tasks[s].user, "Friend Request Sent!">>
            /\ searchResults' = [searchResults EXCEPT ![tasks[s].user] =
                                    @ \ {tasks[s].other}]
       ELSE /\ alert' = <<tasks[s].user, "Error">>
            /\ UNCHANGED <<friendships, searchResults>>
  /\ tasks' = [tasks EXCEPT ![s] = Idle]
  /\ UNCHANGED <<store, views, returnedIds, swipe, chat, friendRequests,
                 live>>

\* the pending rows the user has sent
OutgoingFriendRequestsAnswered(u) ==
  {f \in friendships : f.requester_id = u /\ f.status = "pending"}

\* the rows loadFriendRequests selects: addressed to the user and pending
IncomingFriendRequests(u) ==
  {f \in friendships : f.addressee_id = u /\ f.status = "pending"}

\* setFriendRequests of the component, when it is mounted
SetFriendRequests(u, ids) ==
  friendRequests' = [friendRequests EXCEPT ![u] =
                        IF screen[u] = "MessagesList" THEN ids ELSE @]

\* loadFriendRequests: the friendships read, then the profiles read; a
\* failure of either empties the list
LoadedFriendRequests(u, okFriendships, okProfiles) ==
  IF okFriendships /\ okProfiles
  THEN {f.id : f \in IncomingFriendRequests(u)}
  ELSE {}

\* loadFriendRequests on mount and on a friendships notification
LoadFriendRequests(u) ==
  /\ screen[u] = "MessagesList"
  /\ \E okFriendships, okProfiles \in BOOLEAN :
       SetFriendRequests(u, LoadedFriendRequests(u, okFriendships, okProfiles))
  /\ UNCHANGED <<store, views, returnedIds, alert, tasks, swipe, chat,
                 friendships, searchResults, live>>

\* Accept or Decline on a friend request of the Incoming tab
RespondToFriendRequest(u, requestId, status) ==
  /\ screen[u] = "MessagesList"
  /\ requestId \in friendRequests[u]
  /\ FreeSlots(u) # {}
  /\ tasks' = [tasks EXCEPT ![FreeSlot(u)] =
        [Idle EXCEPT !.kind = "respondToFriendRequest", !.user = u,
                     !.pc = "update", !.req = requestId,
                     !.decision = status]]
  /\ UNCHANGED <<store, views, returnedIds, alert, swipe, chat, social, live>>

\* .update({status}).eq("id", requestId) on friendships, then the request
\* leaves the local list; an error is only logged
FriendUpdate(s) ==
  /\ tasks[s].kind = "respondToFriendRequest"
  /\ tasks[s].pc = "update"
  /\ \E ok \in BOOLEAN :
       IF ok
       THEN /\ friendships' =
                  UpdateStatus(friendships, tasks[s].req, tasks[s].decision)
            /\ SetFriendRequests(tasks[s].user,
                                 friendRequests[tasks[s].user] \ {tasks[s].req})
            /\ tasks' = [tasks EXCEPT ![s].pc = "reload"]
       ELSE /\ tasks' = [tasks EXCEPT ![s] = Idle]
            /\ UNCHANGED <<friendships, friendRequests>>
  /\ UNCHANGED <<store, views, returnedIds, alert, swipe, chat, searchResults,
                 live>>

\* the loadFriendRequests() that respondToFriendRequest starts last
FriendReload(s) ==
  /\ tasks[s].kind = "respondToFriendRequest"
  /\ tasks[s].pc = "reload"
  /\ \E okFriendships, okProfiles \in BOOLEAN :
       SetFriendRequests(tasks[s].user,
          LoadedFriendRequests(tasks[s].user, okFriendships, okProfiles))
  /\ tasks' = [tasks EXCEPT ![s] = Idle]
  /\ UNCHANGED <<store, views, returnedIds, alert, swipe, chat, friendships,
                 searchResults, live>>

\* both accounts have the client open, on FriendSearch or on MessagesList;
\* the store may hold a friendship of the two from earlier
FriendsInit ==
  /\ Fresh
  /\ trade_requests = {}
  /\ conversations = {}
  /\ hidden_conversations = {}
  /\ messages = {}
  /\ screen \in [Users -> {"FriendSearch", "MessagesList"}]
  /\ \E earlier \in SUBSET {FriendshipRow(1, 2, 1, status) :
                               status \in {"pending", "accepted", "declined", "blocked"}} :
        /\ Cardinality(earlier) <= 1
        /\ friendships = earlier
  /\ subscriptions = Subscribed(screen)

FriendsNext ==
  \/ \E u \in Users : SearchUsers(u)
  \/ \E s \in Slots : SearchSelect(s)
  \/ \E u \in Users : \E addresseeId \in Accounts :
        SendFriendRequest(u, addresseeId)
  \/ \E s \in Slots : FriendCheck(s)
  \/ \E s \in Slots : FriendInsert(s)
  \/ \E u \in Users : LoadFriendRequests(u)
  \/ \E u \in Users : \E requestId \in {f.id : f \in friendships} :
        \E status \in Decisions : RespondToFriendRequest(u, requestId, status)
  \/ \E s \in Slots : FriendUpdate(s)
  \/ \E s \in Slots : FriendReload(s)

SpecFriends == FriendsInit /\ [][FriendsNext]_vars

\* the requests of one addressee being answered while the other account
\* looks at its own lists: the store holds friendships from earlier
AnswerInit ==
  /\ Fresh
  /\ trade_requests = {}
  /\ conversations = {}
  /\ hidden_conversations = {}
  /\ messages = {}
  /\ screen = [u \in Users |-> "MessagesList"]
  /\ \E earlier \in SUBSET {FriendshipRow(1, 2, 1, "pending"),
                            FriendshipRow(2, 1, 2, "pending"),
                            FriendshipRow(3, 3, 1, "accepted")} :
        /\ Cardinality(earlier) <= MaxFriendships
        /\ friendships = earlier
  /\ subscriptions = Subscribed(screen)

AnswerNext ==
  \/ \E u \in Users : LoadFriendRequests(u)
  \/ \E u \in Users : \E requestId \in {f.id : f \in friendships} :
        \E status \in Decisions : RespondToFriendRequest(u, requestId, status)
  \/ \E s \in Slots : FriendUpdate(s)
  \/ \E s \in Slots : FriendReload(s)

SpecAnswer == AnswerInit /\ [][AnswerNext]_vars

\* ------------------------------------------- ChatScreen, the message list
\* the ids in ids, smallest first: ids are given in creation order
RECURSIVE InCreationOrder(_)
InCreationOrder(ids) ==
  IF ids = {} THEN <<>>
  ELSE LET first == CHOOSE i \in ids : \A j \in ids : i <= j
       IN  <<first>> \o InCreationOrder(ids \ {first})

\* loadMessages, called when ChatScreen mounts: the messages of the
\* conversation ordered by created_at; setMessages(data) replaces the list
LoadMessages(u) ==
  /\ screen[u] = "ChatScreen"
  /\ loading[u] = "select"
  /\ \E ok \in BOOLEAN :
       IF ok
       THEN /\ chatMessages' = [chatMessages EXCEPT ![u] =
                 InCreationOrder({m.id : m \in {x \in messages :
                                    x.conversation_id = selected[u]}})]
            /\ loading' = [loading EXCEPT ![u] = "loaded"]
            /\ alert' = NoAlert
       ELSE /\ alert' = <<u, "Error">>
            /\ loading' = [loading EXCEPT ![u] = "failed"]
            /\ UNCHANGED chatMessages
  /\ marked' = NoMark
  /\ UNCHANGED <<store, tasks, views, returnedIds, swipe, convList, selected,
                 newMessage, marking, social, notifications, refreshes,
                 subscriptions>>

\* the INSERT callback of the channel: the row is appended to the list and,
\* when another account has sent it, markMessageAsRead updates it
MessageInserted(u) ==
  /\ <<u, "ChatScreen">> \in subscriptions
  /\ notifications[u] # <<>>
  /\ LET id == Head(notifications[u])
         senders == {m.sender_id : m \in {x \in messages : x.id = id}}
     IN  /\ chatMessages' = [chatMessages EXCEPT ![u] = Append(@, id)]
         /\ notifications' = [notifications EXCEPT ![u] = Tail(@)]
         /\ \E ok \in BOOLEAN :
              messages' = IF ok /\ senders # {u}
                          THEN MarkMessageRead(messages, id)
                          ELSE messages
  /\ alert' = NoAlert
  /\ marked' = NoMark
  /\ UNCHANGED <<items, trade_requests, conversations, hidden_conversations,
                 tasks, views, returnedIds, swipe, convList, selected,
                 newMessage, marking, social, loading, refreshes,
                 subscriptions>>

\* --------------------------------------- MessagesList, overlapping loads
\* a call is recorded with what its reads returned, whether they succeeded,
\* and whether it has reached setConversations
\* loadConversations called by a channel callback or on mount: the reads
StartLoadConversations(u) ==
  /\ screen[u] = "MessagesList"
  /\ Len(refreshes[u]) < MaxRefreshes
  /\ \E okConversations, okHidden, okUnread \in BOOLEAN :
       refreshes' = [refreshes EXCEPT ![u] =
          Append(@, [list |-> IF okConversations
                                THEN LoadedConversations(u, okHidden, okUnread)
                                ELSE <<>>,
                       ok |-> okConversations, done |-> FALSE])]
  /\ alert' = NoAlert
  /\ marked' = NoMark
  /\ UNCHANGED <<store, tasks, views, returnedIds, swipe, chat, social,
                 chatMessages, notifications, loading, subscriptions>>

\* call k of loadConversations returns: setConversations with what it has
\* read, whichever call set the list before
FinishLoadConversations(u, k) ==
  /\ screen[u] = "MessagesList"
  /\ ~refreshes[u][k].done
  /\ refreshes' = [refreshes EXCEPT ![u][k].done = TRUE]
  /\ IF refreshes[u][k].ok
     THEN SetConversations(u, refreshes[u][k].list)
     ELSE UNCHANGED convList
  /\ alert' = NoAlert
  /\ marked' = NoMark
  /\ UNCHANGED <<store, tasks, views, returnedIds, swipe, selected,
                 newMessage, marking, social, chatMessages, notifications,
                 loading, subscriptions>>

\* both accounts have MessagesList open and share a conversation without
\* messages; account 1 opens it, sends, reads and goes back while account 2
\* opens it and sends
LiveInit ==
  /\ Fresh
  /\ trade_requests = {}
  /\ friendships = {}
  /\ screen = [u \in Users |-> "MessagesList"]
  /\ conversations = {ConversationRow(1, 1, 2, 1)}
  /\ hidden_conversations = {}
  /\ messages = {}
  /\ subscriptions = Subscribed(screen)

LiveNext ==
  \/ LoadConversations(1)
  \/ \E k \in 1..Len(convList[1]) : HandleConversationSelect(1, convList[1][k])
  \/ MarkMessagesAsRead(1)
  \/ LoadMessages(1)
  \/ MessageInserted(1)
  \/ HandleBackToMessages(1)
  \/ LoadConversations(2)
  \/ \E k \in 1..Len(convList[2]) : HandleConversationSelect(2, convList[2][k])
  \/ \E u \in Users : \E text \in TypedTexts : SetNewMessage(u, text)
  \/ \E u \in Users : SendMessage(u)
  \/ \E u \in Users : RenderSending(u)
  \/ \E s \in Slots : SendMessageInsert(s)

SpecLive == LiveInit /\ [][LiveNext]_vars

\* account 1 has MessagesList open while account 2 writes in the
\* conversation they share
RefreshInit ==
  /\ Fresh
  /\ trade_requests = {}
  /\ friendships = {}
  /\ screen = [u \in Users |-> "MessagesList"]
  /\ conversations = {ConversationRow(1, 1, 2, 1), ConversationRow(2, 1, 3, 2)}
  /\ hidden_conversations = {}
  /\ messages = {}
  /\ subscriptions = Subscribed(screen)

RefreshNext ==
  \/ StartLoadConversations(1)
  \/ \E k \in 1..Len(refreshes[1]) : FinishLoadConversations(1, k)
  \/ LoadConversations(2)
  \/ \E k \in 1..Len(convList[2]) : HandleConversationSelect(2, convList[2][k])
  \/ MarkMessagesAsRead(2)
  \/ \E text \in TypedTexts : SetNewMessage(2, text)
  \/ SendMessage(2)
  \/ RenderSending(2)
  \/ \E s \in Slots : SendMessageInsert(s)

SpecRefresh == RefreshInit /\ [][RefreshNext]_vars

\* ------------------------------------ TradeRequestsScreen, leaving it
\* the screen unmounts: its state is dropped.  The effect of the mount
\* returns nothing, so the function subscribeToTradeRequests returns is
\* never called and the channel stays open
LeaveTradeRequestsScreen(u) ==
  /\ screen[u] = "TradeRequestsScreen"
  /\ screen' = [screen EXCEPT ![u] = "closed"]
  /\ screenRequests' = [screenRequests EXCEPT ![u] = {}]
  /\ currentUser' = [currentUser EXCEPT ![u] = 0]
  /\ alert' = NoAlert
  /\ UNCHANGED <<store, tasks, tradeRequests, incomingRequests, returnedIds,
                 swipe, chat, social, live>>

\* the callback of the channel after the screen has unmounted:
\* fetchTradeRequests reads again, its setTradeRequests reaches no mounted
\* component, its showError is shown
TradeRequestsChanged(u) ==
  /\ <<u, "TradeRequestsScreen">> \in subscriptions
  /\ screen[u] # "TradeRequestsScreen"
  /\ \E ok \in BOOLEAN : alert' = IF ok THEN NoAlert ELSE <<u, "Error">>
  /\ UNCHANGED <<store, tasks, views, returnedIds, swipe, chat, social, live>>

\* one account has TradeRequestsScreen open and may leave it
LeaveInit ==
  /\ Fresh
  /\ messages = {}
  /\ friendships = {}
  /\ conversations = {}
  /\ hidden_conversations = {}
  /\ \E a \in Users :
        screen = [u \in Users |-> IF u = a THEN "TradeRequestsScreen"
                                  ELSE "closed"]
  /\ \E n \in 1..MaxRequests :
       \E f \in [1..n -> UNION {PendingRowsFor(k) : k \in 1..n}] :
          /\ \A k \in 1..n : f[k].id = k
          /\ trade_requests = {f[k] : k \in 1..n}
  /\ subscriptions = Subscribed(screen)

LeaveNext ==
  \/ \E u \in Users : GetCurrentUser(u)
  \/ \E u \in Users : FetchTradeRequests(u)
  \/ \E u \in Users : \E r \in screenRequests[u] : \E d \in Decisions :
        HandleTrade(u, r, d)
  \/ \E s \in Slots : HandleTradeUpdate(s)
  \/ \E s \in Slots : HandleAcceptItems(s)
  \/ \E s \in Slots : HandleTradeReload(s)
  \/ \E u \in Users : LeaveTradeRequestsScreen(u)
  \/ \E u \in Users : TradeRequestsChanged(u)

SpecLeave == LeaveInit /\ [][LeaveNext]_vars

\* ------------------------- MyItems of TradeRequests.tsx (user u), cleanup
\* loadMyItems of this MyItems
ReloadMyItems(u) ==
  /\ screen[u] = "MyItems"
  /\ \E ok \in BOOLEAN :
       IF ok
       THEN /\ myItems' = [myItems EXCEPT ![u] = OwnListings(u)]
            /\ alert' = NoAlert
       ELSE /\ alert' = <<u, "Error">>
            /\ UNCHANGED myItems
  /\ UNCHANGED <<store, tasks, respond, chat, userItems, swipeItems,
                 currentIndex, swipedItemIds, animations, homeItems, detail,
                 social, live>>

\* toggleItemAvailability / deleteItem of this MyItems: up to the first await
StartWithCleanup(kind, u, listing) ==
  /\ screen[u] = "MyItems"
  /\ listing \in myItems[u]
  /\ FreeSlots(u) # {}
  /\ tasks' = [tasks EXCEPT ![FreeSlot(u)] =
        [Idle EXCEPT !.kind = kind, !.user = u, !.pc = "cleanup",
                     !.reqItem = listing.id,
                     !.isAvailable = ~listing.is_available]]
  /\ alert' = NoAlert
  /\ UNCHANGED <<store, respond, chat, swipe, social, live>>

\* the trade_requests rows
\* .or(requester_item_id.eq.itemId, target_item_id.eq.itemId) matches
ReferencingItem(rows, itemId) ==
  {r \in rows : r.requester_item_id = itemId \/ r.target_item_id = itemId}

\* "Delete associated trade requests first": the error is logged and the
\* handler continues; the task keeps the ids of the rows this delete removed
CleanupRequests(s) ==
  LET t == tasks[s] IN
  /\ t.kind \in {"toggleWithCleanup", "deleteWithCleanup"}
  /\ t.pc = "cleanup"
  /\ \E ok \in BOOLEAN :
       IF ok
       THEN /\ trade_requests' =
                  trade_requests \ ReferencingItem(trade_requests, t.reqItem)
            /\ tasks' = [tasks EXCEPT ![s].pc = "item",
                  ![s].ids = {r.id : r \in
                              ReferencingItem(trade_requests, t.reqItem)}]
       ELSE /\ tasks' = [tasks EXCEPT ![s].pc = "item"]
            /\ UNCHANGED trade_requests
  /\ alert' = NoAlert
  /\ UNCHANGED <<items, conversations, messages, hidden_conversations, views,
                 returnedIds, swipe, chat, social, live>>

\* the item rows .eq("id", itemId).eq("user_id", session.user.id) matches
OwnItem(rows, itemId, me) ==
  {i \in DOMAIN rows : i = itemId /\ rows[i].user_id = me}

\* .update({is_available, status}) on the matching row
SetAvailabilityAndStatus(rows, itemId, me, isAvailable) ==
  [i \in DOMAIN rows |->
     IF i \in OwnItem(rows, itemId, me)
     THEN [rows[i] EXCEPT !.is_available = isAvailable,
                          !.status = IF isAvailable THEN "available"
                                     ELSE "unavailable"]
     ELSE rows[i]]

\* the update of toggleItemAvailability with .select(), and its Alerts
ToggleItemUpdate(s) ==
  LET t == tasks[s] IN
  /\ t.kind = "toggleWithCleanup" /\ t.pc = "item"
  /\ \E ok \in BOOLEAN :
       IF ~ok
       THEN /\ alert' = <<t.user, "Database Error">>
            /\ tasks' = [tasks EXCEPT ![s] = Idle]
            /\ UNCHANGED items
       ELSE IF OwnItem(items, t.reqItem, t.user) = {}
            THEN /\ alert' = <<t.user, "Error">>
                 /\ tasks' = [tasks EXCEPT ![s] = Idle]
                 /\ UNCHANGED items
            ELSE /\ items' = SetAvailabilityAndStatus(items, t.reqItem, t.user,
                                                      t.isAvailable)
                 /\ alert' = <<t.user, "Success">>
                 /\ tasks' = [tasks EXCEPT ![s].pc = "reload"]
  /\ UNCHANGED <<trade_requests, conversations, messages,
                 hidden_conversations, views, returnedIds, swipe, chat,
                 social, live>>

\* the delete of deleteItem with .select(), and its Alerts
DeleteItemRow(s) ==
  LET t == tasks[s] IN
  /\ t.kind = "deleteWithCleanup" /\ t.pc = "item"
  /\ \E ok \in BOOLEAN :
       IF ~ok
       THEN /\ alert' = <<t.user, "Database Error">>
            /\ tasks' = [tasks EXCEPT ![s] = Idle]
            /\ UNCHANGED <<items, trade_requests>>
       ELSE IF OwnItem(items, t.reqItem, t.user) = {}
            THEN /\ alert' = <<t.user, "Error">>
                 /\ tasks' = [tasks EXCEPT ![s] = Idle]
                 /\ UNCHANGED <<items, trade_requests>>
            ELSE /\ items' = [i \in DOMAIN items \ {t.reqItem} |-> items[i]]
                 /\ trade_requests' = DeleteCascade(trade_requests, t.reqItem)
                 /\ alert' = <<t.user, "Success">>
                 /\ tasks' = [tasks EXCEPT ![s].pc = "reload"]
  /\ UNCHANGED <<conversations, messages, hidden_conversations, views,
                 returnedIds, swipe, chat, social, live>>

\* the trailing loadMyItems() of both handlers
ItemsReload(s) ==
  LET t == tasks[s] IN
  /\ t.kind \in {"toggleWithCleanup", "deleteWithCleanup"} /\ t.pc = "reload"
  /\ \E ok \in BOOLEAN :
       IF ok
       THEN /\ myItems' = [myItems EXCEPT ![t.user] =
                             IF screen[t.user] = "MyItems"
                             THEN OwnListings(t.user) ELSE @]
            /\ alert' = NoAlert
       ELSE /\ alert' = <<t.user, "Error">>
            /\ UNCHANGED myItems
  /\ tasks' = [tasks EXCEPT ![s] = Idle]
  /\ UNCHANGED <<store, respond, chat, userItems, swipeItems, currentIndex,
                 swipedItemIds, animations, homeItems, detail, social, live>>

\* one account has this MyItems open; the store holds trade requests that
\* reference the listings, pending or answered
ItemsInit ==
  /\ Fresh
  /\ messages = {}
  /\ friendships = {}
  /\ conversations = {}
  /\ hidden_conversations = {}
  /\ \E a \in Users :
        screen = [u \in Users |-> IF u = a THEN "MyItems" ELSE "closed"]
  /\ \E n \in 1..MaxRequests :
       \E f \in [1..n -> UNION {PendingRowsFor(k) : k \in 1..n}] :
          \E answered \in SUBSET (1..n) :
             /\ \A k \in 1..n : f[k].id = k
             /\ trade_requests =
                  {IF k \in answered THEN [f[k] EXCEPT !.status = "accepted"]
                   ELSE f[k] : k \in 1..n}
  /\ subscriptions = Subscribed(screen)

ItemsNext ==
  \/ \E u \in Users : ReloadMyItems(u)
  \/ \E u \in Users : \E listing \in myItems[u] :
        StartWithCleanup("toggleWithCleanup", u, listing)
  \/ \E u \in Users : \E listing \in myItems[u] :
        StartWithCleanup("deleteWithCleanup", u, listing)
  \/ \E s \in Slots : CleanupRequests(s)
  \/ \E s \in Slots : ToggleItemUpdate(s)
  \/ \E s \in Slots : DeleteItemRow(s)
  \/ \E s \in Slots : ItemsReload(s)

SpecItems == ItemsInit /\ [][ItemsNext]_vars

\* ------------------------------------------------------------------ specs
Next ==
  \/ \E u \in Users : LoadTradeRequests(u)
  \/ \E u \in Users : \E r \in tradeRequests[u] : \E d \in Decisions :
        RespondToTradeRequest(u, r, d)
  \/ \E s \in Slots : RespondUpdate(s)
  \/ \E s \in Slots : ConversationLookup(s)
  \/ \E s \in Slots : ConversationUnhide(s)
  \/ \E s \in Slots : ConversationInsert(s)
  \/ \E s \in Slots : SendAutomaticMessage(s)
  \/ \E s \in Slots : RespondReload(s)
  \/ \E u \in Users : LoadIncomingRequests(u)
  \/ \E u \in Users : \E r \in incomingRequests[u] : \E d \in Decisions :
        RespondToRequest(u, r, d)
  \/ \E s \in Slots : RequestUpdate(s)
  \/ \E s \in Slots : RequestReload(s)
  \/ \E u \in Users : GetCurrentUser(u)
  \/ \E u \in Users : FetchTradeRequests(u)
  \/ \E u \in Users : \E r \in screenRequests[u] : \E d \in Decisions :
        HandleTrade(u, r, d)
  \/ \E s \in Slots : HandleTradeUpdate(s)
  \/ \E s \in Slots : HandleAcceptItems(s)
  \/ \E s \in Slots : HandleTradeReload(s)

\* the accept/decline flow of MessagesList alone
MessagesNext ==
  \/ \E u \in Users : LoadTradeRequests(u)
  \/ \E u \in Users : \E r \in tradeRequests[u] : \E d \in Decisions :
        RespondToTradeRequest(u, r, d)
  \/ \E s \in Slots : RespondUpdate(s)
  \/ \E s \in Slots : ConversationLookup(s)
  \/ \E s \in Slots : ConversationUnhide(s)
  \/ \E s \in Slots : ConversationInsert(s)
  \/ \E s \in Slots : SendAutomaticMessage(s)
  \/ \E s \in Slots : RespondReload(s)

Spec == Init /\ [][Next]_vars
SpecMutual == MutualInit /\ [][MessagesNext]_vars

\* account 1 has MessagesList open with a pending request of account 2 in
\* it; Accept can be pressed again while an answer is in flight
TwiceInit ==
  /\ Unloaded
  /\ tasks = [s \in SlotsOf(MaxTasks + 1) |-> Idle]
  /\ messages = {}
  /\ friendships = {}
  /\ screen = [u \in Users |-> IF u = 1 THEN "MessagesList" ELSE "closed"]
  /\ conversations \in SUBSET {ConversationRow(1, 1, 2, 1)}
  /\ hidden_conversations = {}
  /\ trade_requests = {TradeRequestRow(1, 2, 2, 1, 1, "pending")}
  /\ subscriptions = Subscribed(screen)

SpecTwice == TwiceInit /\ [][MessagesNext]_vars

\* account 1 has MessagesList open, with nothing unread; Send can be
\* pressed again while a send is in flight
DraftInit ==
  /\ Unloaded
  /\ tasks = [s \in SlotsOf(MaxTasks + 1) |-> Idle]
  /\ trade_requests = {}
  /\ friendships = {}
  /\ screen = [u \in Users |-> IF u = 1 THEN "MessagesList" ELSE "closed"]
  /\ conversations = {ConversationRow(1, 1, 2, 1), ConversationRow(2, 1, 3, 2)}
  /\ hidden_conversations = {}
  /\ messages = {[MessageRow(1, 1, 2, 5) EXCEPT !.is_read = TRUE],
                 [MessageRow(2, 2, 3, 5) EXCEPT !.is_read = TRUE]}
  /\ subscriptions = Subscribed(screen)

SpecDraft == DraftInit /\ [][SendNext]_vars

\* ----------------------------------------------------------------- claims
StatusOf(rows, id) == {r.status : r \in {x \in rows : x.id = id}}

\* C1: at most one conversations row per unordered pair of accounts
OneConversationPerPair ==
  \A c, d \in conversations :
     ({c.user1_id, c.user2_id} = {d.user1_id, d.user2_id}) => c.id = d.id

\* C2: createOrGetConversation returns one id for a pair, whichever of the
\* two accounts calls it, and every row has user1_id < user2_id
SameConversationEitherOrder ==
  /\ \A x, y \in returnedIds : (x[1] = y[2] /\ x[2] = y[1]) => x[3] = y[3]
  /\ \A c \in conversations : c.user1_id < c.user2_id

\* a respondToTradeRequest("accepted") that returns in this step without
\* having thrown
AcceptReturns(s) ==
  /\ tasks[s].kind = "respondToTradeRequest"
  /\ tasks[s].decision = "accepted"
  /\ tasks[s].pc \in {"lookup", "insert", "message"}
  /\ tasks'[s].pc = "reload"

\* C3: when an accept returns without an error, the request is accepted and
\* a conversation of requester and target exists and holds a message
AcceptEstablishesConversation ==
  [][\A s \in Slots : AcceptReturns(s) =>
        /\ StatusOf(trade_requests', tasks[s].req) = {"accepted"}
        /\ \E c \in conversations' :
              /\ {c.user1_id, c.user2_id} = {tasks[s].user, tasks[s].other}
              /\ \E m \in messages' : m.conversation_id = c.id]_vars

\* the conversation lookup, the conversation insert or the message insert
\* of an accept fails in this step
AcceptStepFails(s) ==
  /\ AcceptReturns(s)
  /\ tasks[s].pc = "message" => messages' = messages

\* C4: such a failure undoes the accept or shows an error to the account
NoSilentPartialAccept ==
  [][\A s \in Slots : AcceptStepFails(s) =>
        \/ StatusOf(trade_requests', tasks[s].req) # {"accepted"}
        \/ alert' = <<tasks[s].user, "Error">>]_vars

\* C5: the status of a request changes only in a step of a handler that its
\* target account runs
OnlyTargetResponds ==
  [][\A r \in trade_requests :
        StatusOf(trade_requests', r.id) # {r.status} =>
           \E s \in Slots : /\ tasks[s].pc = "update"
                            /\ tasks'[s] # tasks[s]
                            /\ tasks[s].req = r.id
                            /\ tasks[s].user = r.target_user_id]_vars

\* C6: a request that is accepted or declined keeps its status
AnsweredStatusIsFinal ==
  [][\A r \in trade_requests :
        r.status # "pending" => StatusOf(trade_requests', r.id) = {r.status}]_vars

Unavailable(i) == ~items[i].is_available \/ items[i].status # "available"

\* an accept of the target returns in this step
TargetAcceptReturns(s) ==
  \/ AcceptReturns(s)
  \/ /\ tasks[s].kind \in {"respondToRequest", "handleAcceptTrade"}
     /\ tasks[s].decision = "accepted"
     /\ tasks[s].pc # "reload" /\ tasks'[s].pc = "reload"

\* C7: when an accept returns, both items of the request are unavailable
AcceptTakesItemsDown ==
  [][\A s \in Slots : TargetAcceptReturns(s) =>
        (Unavailable(tasks[s].reqItem) /\ Unavailable(tasks[s].tgtItem))']_vars

\* C8: a step of a decline changes nothing but the status of its request:
\* no item, conversation, message or hide marker, and no other request
DeclineChangesOnlyStatus ==
  [][\A s \in Slots :
        (tasks[s].decision = "declined" /\ tasks'[s] # tasks[s]) =>
           /\ items' = items
           /\ conversations' = conversations
           /\ messages' = messages
           /\ hidden_conversations' = hidden_conversations
           /\ {r.id : r \in trade_requests'} = {r.id : r \in trade_requests}
           /\ \A r \in trade_requests :
                 \/ r \in trade_requests'
                 \/ /\ r.id = tasks[s].req
                    /\ [r EXCEPT !.status = "declined"] \in trade_requests']_vars

\* C8 witness: a decline has been written and has returned
DeclineDone ==
  /\ \E r \in trade_requests : r.status = "declined"
  /\ \A s \in Slots : tasks[s].kind = "idle"

\* the item is offered for trade: the row exists, is_available, status
\* available
Offered(i) == i \in DOMAIN items /\ ~Unavailable(i)

\* C9: every trade_requests row is created by an account for a listing of
\* another account, in exchange for a listing it owns that is offered for
\* trade when the row is created
CreateRequestChecksItem ==
  [][\A r \in trade_requests' \ trade_requests :
        /\ r.requester_id # r.target_user_id
        /\ Offered(r.requester_item_id)
        /\ items[r.requester_item_id].user_id = r.requester_id]_vars

\* the insert of a request whose requester is not the owner of the target
\* and owns the offered listing, which is offered for trade
ValidInsert(s) ==
  /\ tasks[s].kind \in {"sendTradeRequest", "submitTradeRequest"}
  /\ tasks'[s] # tasks[s]
  /\ tasks[s].user # OwnerOf(tasks[s].tgtItem)
  /\ Offered(tasks[s].reqItem)
  /\ items[tasks[s].reqItem].user_id = tasks[s].user

Active(r) == r.status \in {"pending", "accepted"}

\* C11: no two active trade_requests rows have the same requester and the
\* same target item
OneActiveRequestPerTarget ==
  \A r, q \in trade_requests :
     (/\ Active(r) /\ Active(q)
      /\ r.requester_id = q.requester_id
      /\ r.target_item_id = q.target_item_id) => r.id = q.id

\* the ids of the conversations rows
ConversationIds == {c.id : c \in conversations}

\* account u's markRead of conversation c takes this step: the
\* markMessagesAsRead of ChatScreen or a step of handleConversationSelect
MarkReadStep(u, c) ==
  \/ marking[u] = c /\ marking'[u] = 0
  \/ \E s \in Slots : /\ tasks[s].kind = "handleConversationSelect"
                      /\ tasks[s].user = u /\ tasks[s].conv = c
                      /\ tasks'[s] # tasks[s]

ListedIds(u) == {convList[u][k].id : k \in 1..Len(convList[u])}

\* the ids loadConversations gives account b when its reads succeed
LoadedIds(b) ==
  LET list == LoadedConversations(b, TRUE, TRUE)
  IN {list[k].id : k \in 1..Len(list)}

\* C13: a hideConversation of conversation c by account a changes no
\* messages row and no conversations row and nothing in what the other
\* accounts load, and when it has completed c is not in a's list
HideIsUnilateral ==
  [][\A s \in Slots : \A a \in Users : \A c \in ConversationIds :
        (/\ tasks[s].kind = "hideConversation" /\ tasks'[s] # tasks[s]
         /\ tasks[s].user = a /\ tasks[s].conv = c) =>
           /\ messages' = messages
           /\ conversations' = conversations
           /\ \A b \in Accounts \ {a} : LoadedIds(b)' = LoadedIds(b)
           /\ tasks[s].pc = "reload" => c \notin ListedIds(a)']_vars

\* C14: when createOrGetConversation of account a has found conversation c
\* and returns, a has no hide marker on c and loads c in its list, and the
\* marker of the other participant is as it was
ReengagingUnhidesCaller ==
  [][\A s \in Slots : \A a \in Users : \A c \in ConversationIds :
        (/\ tasks[s].kind = "respondToTradeRequest" /\ tasks[s].pc = "unhide"
         /\ tasks'[s] # tasks[s]
         /\ tasks[s].user = a /\ tasks[s].conv = c) =>
           /\ <<c, a>> \notin hidden_conversations'
           /\ c \in LoadedIds(a)'
           /\ \A b \in Users \ {a} :
                 (<<c, b>> \in hidden_conversations) <=>
                    (<<c, b>> \in hidden_conversations')]_vars

\* C15: when the sendMessage of account a has appended a message to
\* conversation c, a has no hide marker on c and loads c in its list
SendingUnhidesSender ==
  [][\A s \in Slots : \A a \in Users : \A c \in ConversationIds :
        (/\ tasks[s].kind = "sendMessage" /\ tasks[s].user = a
         /\ tasks[s].conv = c
         /\ tasks'[s] # tasks[s] /\ messages' # messages) =>
           /\ <<c, a>> \notin hidden_conversations'
           /\ c \in LoadedIds(a)']_vars

\* the conversations of account u that u has not hidden
VisibleIds(u) == {c.id : c \in ParticipantIn(u)} \ HiddenIds(u)

\* a loadConversations of account u sets the list in this step
ListLoaded(u) ==
  /\ convList'[u] # convList[u]
  /\ screen' = screen
  /\ \/ tasks' = tasks
     \/ \E s \in Slots : /\ tasks[s].kind = "hideConversation"
                         /\ tasks[s].user = u /\ tasks[s].pc = "reload"
                         /\ tasks'[s] # tasks[s]

\* C16: the list loadConversations sets for account u holds exactly the
\* conversations u takes part in and has not hidden
ListIsExactlyVisible ==
  [][\A u \in Users : ListLoaded(u) => ListedIds(u)' = VisibleIds(u)']_vars

\* the participants of conversation c
Participants(c) ==
  UNION {{r.user1_id, r.user2_id} : r \in {x \in conversations : x.id = c}}

AppendedMessageIsValid ==
  [][LET appended == {m \in messages' : m.id \notin {x.id : x \in messages}}
     IN /\ Cardinality(appended) <= 1
        /\ \A m \in appended :
              /\ m.content >= 1 /\ m.content <= MaxLength
              /\ ~m.is_read
              /\ \E s \in Slots : /\ tasks'[s] # tasks[s]
                                  /\ tasks[s].user = m.sender_id]_vars

\* account u's hideConversation of conversation c takes this step
HideStep(u, c) ==
  \E s \in Slots : /\ tasks[s].kind = "hideConversation"
                   /\ tasks[s].user = u /\ tasks[s].conv = c
                   /\ tasks'[s] # tasks[s]

\* C19: no step of a markRead or of a hide turns a read message unread or
\* removes a hide marker, and once account u has its marker on
\* conversation c and nothing unread in it, every further markRead or hide
\* of u on c leaves messages and markers as they are
MarkAndHideConverge ==
  [][\A u \in Users : \A c \in ConversationIds :
        (MarkReadStep(u, c) \/ HideStep(u, c)) =>
           /\ \A m \in messages :
                 m.is_read => \E x \in messages' : x.id = m.id /\ x.is_read
           /\ hidden_conversations \subseteq hidden_conversations'
           /\ Cardinality(messages') = Cardinality(messages)
           /\ (<<c, u>> \in hidden_conversations /\ Unread(c, u) = {}) =>
                 /\ messages' = messages
                 /\ hidden_conversations' = hidden_conversations]_vars

\* C19 witness: a markRead has just been executed on a conversation the
\* account has hidden, and all messages of the other account in it are read
MarkedAndHidden ==
  \E u \in Users : \E c \in ConversationIds :
     /\ marked = <<u, c>>
     /\ <<c, u>> \in hidden_conversations
     /\ Unread(c, u) = {}
     /\ \E m \in messages : m.conversation_id = c /\ m.is_read

\* both items of every accepted trade
AcceptedItemIds ==
  UNION {{r.requester_item_id, r.target_item_id} :
           r \in {x \in trade_requests : x.status = "accepted"}}

\* C20: every card that a loadPotentialMatches of account u puts in the
\* feed is an available listing of another account that u has not swiped
\* in this session, that no pending or accepted request of u targets, and
\* that is in no accepted trade
FeedHoldsOnlyCandidates ==
  [][\A u \in Users :
        swipeItems'[u] # swipeItems[u] =>
           \A i \in {swipeItems'[u][k] : k \in 1..Len(swipeItems'[u])} :
              /\ i \in DOMAIN items'
              /\ items'[i].user_id # u
              /\ items'[i].is_available
              /\ i \notin swipedItemIds'[u]
              /\ i \notin RequestedItemIds(u)'
              /\ i \notin AcceptedItemIds']_vars

\* the friendships of two accounts, in either direction, that are not
\* declined
NonDeclinedBetween(a, b) ==
  {f \in FriendshipsBetween(a, b) : f.status # "declined"}

\* C21: a sendFriendRequest between two accounts that have a friendship
\* that is not declined, in either direction, inserts no row, however many
\* rows the store holds for the pair.
ConnectedPairGetsNoRequest ==
  [][\A s \in Slots : \A a \in Users : \A b \in Accounts :
        (/\ tasks[s].kind = "sendFriendRequest"
         /\ tasks[s].user = a
         /\ tasks[s].other = b
         /\ tasks'[s] # tasks[s]
         /\ NonDeclinedBetween(a, b) # {})
        => friendships' = friendships]_vars

\* C22: the status of a friendship changes only in the update of a
\* respondToFriendRequest of its addressee, and a pending friendship
\* becomes accepted, declined or blocked.
OnlyAddresseeAnswersFriendship ==
  [][\A f \in friendships : \A g \in friendships' :
        (g.id = f.id /\ g.status # f.status)
        => /\ \E s \in Slots :
                 /\ tasks[s].kind = "respondToFriendRequest"
                 /\ tasks[s].user = f.addressee_id
                 /\ tasks[s].req = f.id
                 /\ tasks'[s] # tasks[s]
           /\ f.status = "pending"
                 => g.status \in {"accepted", "declined", "blocked"}]_vars

\* an addressee has answered a friend request and the store has the answer
FriendshipAnswered ==
  \E s \in Slots : \E f \in friendships :
     /\ tasks[s].kind = "respondToFriendRequest"
     /\ tasks[s].pc = "reload"
     /\ f.id = tasks[s].req
     /\ f.addressee_id = tasks[s].user
     /\ f.status = tasks[s].decision

\* the accounts that have a friendship with u that is not declined
Connected(u) == {a \in Accounts : NonDeclinedBetween(u, a) # {}}

\* C23: the accounts a friend search returns are not the searcher and have
\* no pending, accepted or blocked friendship with the searcher, in either
\* direction.
SearchReturnsOnlyUnconnected ==
  [][\A s \in Slots : \A u \in Users :
        (/\ tasks[s].kind = "searchUsers"
         /\ tasks[s].user = u
         /\ tasks'[s] = Idle
         /\ alert' = NoAlert)
        => searchResults'[u] \cap (Connected(u) \cup {u}) = {}]_vars

\* the messages target has sent in its conversations with requester
ConfirmationsFrom(target, requester) ==
  {m \in messages :
     /\ m.sender_id = target
     /\ \E c \in ConversationsOf(User1Id(target, requester),
                                 User2Id(target, requester)) :
           c.id = m.conversation_id}

AcceptedRequests(requester, target) ==
  {r \in trade_requests : /\ r.requester_id = requester
                          /\ r.target_user_id = target
                          /\ r.status = "accepted"}

\* C24: an accepted trade request yields one confirmation message of the
\* accepting account and no more, so the requester never has more unread
\* confirmations than requests the target has accepted, also when Accept
\* is pressed again before the request has left the local list.
OneConfirmationPerAcceptedRequest ==
  \A requester, target \in Users :
     Cardinality(ConfirmationsFrom(target, requester))
        <= Cardinality(AcceptedRequests(requester, target))

\* C25: the message list of ChatScreen never holds the same message id
\* twice, whichever way the loadMessages read and the INSERT callbacks for
\* messages the read also returns interleave (and once they have completed
\* it is the store's messages of the conversation in creation order).
ChatListHasNoDuplicate ==
  \A u \in Users : \A i, j \in 1..Len(chatMessages[u]) :
     chatMessages[u][i] = chatMessages[u][j] => i = j

\* C26: when the overlapping loadConversations calls of an account have
\* all returned and the one that started last has read the store as it is
\* now, the list shown is what that call read: a call that started earlier
\* does not overwrite it.
RefreshedListIsLatestRead ==
  \A u \in Users :
     LET n == Len(refreshes[u]) IN
     (/\ screen[u] = "MessagesList"
      /\ n > 0
      /\ \A k \in 1..n : refreshes[u][k].done
      /\ refreshes[u][n].ok
      /\ refreshes[u][n].list = LoadedConversations(u, TRUE, TRUE))
     => convList[u] = refreshes[u][n].list

\* C27: every channel a view has opened when it mounted is closed once the
\* view has unmounted, so no callback of the view runs any more.
SubscriptionsCloseAtUnmount ==
  \A u \in Users : \A c \in {"MessagesList", "ChatScreen", "TradeRequestsScreen"} :
     <<u, c>> \in subscriptions => screen[u] = c

\* C28: the status and the availability flag of every item agree:
\* is_available is true exactly when the status is "available".
ItemStatusAgreesWithFlag ==
  \A i \in DOMAIN items :
     items[i].is_available <=> items[i].status = "available"

\* C29: when toggleItemAvailability or deleteItem reports success for an
\* item no trade request references the item any more, and when the item
\* update or delete fails or matches no row the trade requests that
\* referenced the item are still there.
ItemChangeIsAllOrNothing ==
  [][\A s \in Slots : \A a \in Users : \A i \in ItemIds :
        (/\ tasks[s].kind \in {"toggleWithCleanup", "deleteWithCleanup"}
         /\ tasks[s].pc = "item"
         /\ tasks[s].user = a
         /\ tasks[s].reqItem = i
         /\ tasks'[s] # tasks[s])
        => IF alert' = <<a, "Success">>
           THEN ReferencingItem(trade_requests', i) = {}
           ELSE tasks[s].ids \subseteq {r.id : r \in trade_requests'}]_vars

\* C30: while a send of an account is in flight, a further sendMessage
\* invocation starts no insert, also when it comes before the component
\* has rendered again with sending = true, so one draft is inserted once.
SecondSendInsertsNothing ==
  [][\A u \in Users :
        Sending(u)
        => \A s \in Slots :
              (s[1] = u /\ tasks'[s].kind = "sendMessage")
              => tasks[s].kind = "sendMessage"]_vars

====
